---- MODULE Spec2Model ----
(***************************************************************************)
(* Parallel threshold counting (cpu_caches/parallel_chunks.cpp).           *)
(*                                                                         *)
(* Spec models one run of the two counting functions on the same image,    *)
(* in the order main calls them: countWithContainer, then                  *)
(* countWithLocalCounter.  The main thread and every worker thread are     *)
(* processes of the state machine; a worker step is one iteration of the   *)
(* lambda's inner loop (one cell) or its final store / fetch_add.          *)
(*                                                                         *)
(* SpecBench models runBenchmarks: the sweep over thread counts and        *)
(* iterations, the statistics and the CSV file; a counting call is there   *)
(* its spawns, its workers' returns and its join.  SpecStats applies the   *)
(* mean and computeStdDev to sample vectors, SpecArgs is main's option     *)
(* loop, SpecGen the generateMatrix functions.  SpecTimer is one Timer of   *)
(* utils, SpecPreCalc is runBenchmarkWithPreCalc as the entity benchmark   *)
(* calls it, and SpecSearch, SpecBinary and SpecMaxSize are the search     *)
(* benchmark: runSearchBenchmarks for one size, binarySearch, and main's   *)
(* --maxSize loop.  A specification leaves the variables of the other      *)
(* components at their initial values.                                     *)
(***************************************************************************)
EXTENDS Integers, Sequences, FiniteSets, TLC

\* ------------------------------------------------------------------ bounds
\* Grids with arbitrary cell values: at most MaxRows x MaxCols, cells 0..MaxVal.
MaxRows == 2
MaxCols == 1
MaxVal == 1
\* Grids made by generateMatrix: at most MaxGenRows x MaxGenCols.
MaxGenRows == 4
MaxGenCols == 1
\* numThreads ranges over -1..MaxThreads, over -1..MaxRandThreads on the grids
\* with arbitrary cells.
MaxThreads == 6
MaxRandThreads == 2

\* ------------------------------------------------------------- pure helpers
Min(a, b) == IF a < b THEN a ELSE b

RECURSIVE SumSeq(_)
\* for (auto count : results) totalCount += count;
SumSeq(s) == IF s = <<>> THEN 0 ELSE Head(s) + SumSeq(Tail(s))

\* matrix[i][j] = (i + j) % 256, i and j counted from 0
generateMatrix(rows, cols) ==
    [r \in 1..rows |-> [c \in 1..cols |-> ((r - 1) + (c - 1)) % 256]]

\* std::vector's constructor throws std::length_error for a negative size
\* (converted to size_t it exceeds max_size)
SizesOk(rows, cols) == rows >= 0 /\ cols >= 0

\* the strict comparison of the inner loop: if (value > threshold)
Matches(value, thr) == value > thr

\* a chunk size rounded down instead of up
ChunkSizeFloor(rows, n) == rows \div n

\* int chunkSize = (numRows + numThreads - 1) / numThreads;   (numThreads > 0)
ChunkSize(rows, n) == (rows + n - 1) \div n

\* a start row computed from a worker id counted from 1
StartRowOneBased(w, chunk) == (w + 1) * chunk

\* int startRow = t * chunkSize;
StartRow(w, chunk) == w * chunk

\* int endRow = std::min(startRow + chunkSize, numRows);
EndRow(start, chunk, rows) == Min(start + chunk, rows)

\* a plain store of the local count in place of the add
FetchAddStore(global, local) == local

\* globalCount.fetch_add(localCount, relaxed): one indivisible read-modify-write
FetchAdd(global, local) == global + local

\* ------------------------------------------------------------------ inputs
RandomGrids ==
    UNION { [1..r -> [1..c -> 0..MaxVal]] : r \in 0..MaxRows, c \in 0..MaxCols }

GenGrids == { generateMatrix(r, c) : r \in 0..MaxGenRows, c \in 0..MaxGenCols }

Thresholds == (-1)..MaxVal

ThreadCounts == (-1)..MaxThreads

RandThreadCounts == (-1)..MaxRandThreads

\* the worked example: the 4x4 grid (i+j), threshold 3, two threads
ExampleGrid == generateMatrix(4, 4)

Inputs ==
    (RandomGrids \X Thresholds \X RandThreadCounts)
        \cup (GenGrids \X Thresholds \X ThreadCounts)
        \cup { <<ExampleGrid, 3, 2>> }

\* ------------------------------------------------------------------- state
VARIABLES
    matrix,       \* the image both calls read (never written)
    threshold,
    numThreads,
    fn,           \* the function being executed: "container" or "local"
    pc,           \* main thread: alloc, chunk, spawn, join, reduce, returned,
                  \* terminated
    numRows,
    chunkSize,
    t,            \* the spawn loop's index
    joined,       \* how many threads of the vector have been joined
    results,      \* std::vector<long long> results  (countWithContainer)
    globalCount,  \* std::atomic<long long> globalCount  (countWithLocalCounter)
    threads,      \* std::vector<std::thread>, one record per spawned worker
    ret,          \* the value each call returned
    returned,     \* the calls that have returned
    err           \* how the process died, "none" while it runs

vars == <<matrix, threshold, numThreads, fn, pc, numRows, chunkSize, t, joined,
          results, globalCount, threads, ret, returned, err>>

inputs == <<matrix, threshold, numThreads>>

\* ------------------------------------------- state of the other components
VARIABLES
    \* runBenchmarks (SpecBench)
    maxThreads, iterations, benchRows, benchCols,   \* its parameters (rows, cols)
    bpc,          \* its position: alloc, gen, timer, call, spawn, stop, push,
                  \* stats, open, write, exit, terminated
    strategy,     \* the block of the loop body: "container" or "local"
    sweepThreads, \* the outer loop's numThreads
    iter,         \* the inner loop's iter
    image,        \* the block's image: its dimensions
    spawned,      \* workers the current call has spawned
    running,      \* workers of the current call that have not returned
    now,          \* the clock
    timer,        \* the block's Timer
    elapsed,      \* auto t = timer.stop()
    times,        \* containerTimes and localTimes
    stats,        \* containerAvg, containerStd, localAvg, localStd
    file,         \* the CSV file on disk
    out,          \* what the operator is told
    events,       \* what has happened in the current trial, in order
    trialLog      \* the trials run so far: <<strategy, numThreads, iter>>

benchVars == <<maxThreads, iterations, benchRows, benchCols, bpc, strategy, sweepThreads,
               iter, image, spawned, running, now, timer, elapsed, times, stats,
               file, out, events, trialLog>>

NoTimer == [start |-> 0, stopped |-> FALSE, duration |-> 0, live |-> FALSE]

NoStats == [containerAvg |-> <<>>, containerStd |-> <<>>,
            localAvg |-> <<>>, localStd |-> <<>>]

NoFile == [exists |-> FALSE, rows |-> <<>>]

\* the locals of runBenchmarks before it runs
BenchLocals ==
    /\ strategy = "container"
    /\ sweepThreads = 0
    /\ iter = 0
    /\ image = <<0, 0>>
    /\ spawned = 0
    /\ running = 0
    /\ now = 0
    /\ timer = NoTimer
    /\ elapsed = 0
    /\ times = [container |-> <<>>, local |-> <<>>]
    /\ stats = NoStats
    /\ out = "none"
    /\ events = <<>>
    /\ trialLog = <<>>

BenchOff ==
    /\ maxThreads = 0 /\ iterations = 0 /\ benchRows = 0 /\ benchCols = 0
    /\ bpc = "off"
    /\ file = NoFile
    /\ BenchLocals

VARIABLES
    \* the statistics of one sample vector (SpecStats)
    sFn,          \* whose they are: "runBenchmarks" or "math.h"
    sValues,      \* the samples
    spc,          \* avg, std, done
    sAvg,         \* the mean computed
    sStd          \* the standard deviation computed

statsVars == <<sFn, sValues, spc, sAvg, sStd>>

\* a double that has not been computed
NoValue == [kind |-> "none", n |-> 0, d |-> 1]

StatsOff ==
    /\ sFn = "none"
    /\ sValues = <<>>
    /\ spc = "off"
    /\ sAvg = NoValue
    /\ sStd = NoValue

VARIABLES
    \* main's option loop (SpecArgs)
    mainVariant,     \* which of the repository's main functions
    argv,            \* the arguments after the program's name: argv[1], ...
    argi,            \* the loop's i
    mainMaxThreads,  \* main's maxThreads
    mainRows,        \* main's rows
    mainCols,        \* main's cols
    mainIterations,  \* main's iterations
    mpc,             \* mode, parse, run, called, default, terminated
    benchCall        \* the arguments runBenchmarks is called with

argsVars == <<mainVariant, argv, argi, mainMaxThreads, mainRows, mainCols,
              mainIterations, mpc, benchCall>>

NoCall == [maxThreads |-> 0, iterations |-> 0, rows |-> 0, cols |-> 0]

ArgsOff ==
    /\ mainVariant = "none"
    /\ argv = <<>>
    /\ argi = 0
    /\ mainMaxThreads = 0 /\ mainRows = 0 /\ mainCols = 0 /\ mainIterations = 0
    /\ mpc = "off"
    /\ benchCall = NoCall

VARIABLES
    \* the generateMatrix functions (SpecGen)
    gVariant,     \* which of the repository's generateMatrix
    gRows, gCols, \* its arguments
    gpc,          \* first, second, done, terminated
    gFirst,       \* what the first call returned
    gSecond       \* what the second call returned

genVars == <<gVariant, gRows, gCols, gpc, gFirst, gSecond>>

GenOff ==
    /\ gVariant = "none"
    /\ gRows = 0 /\ gCols = 0
    /\ gpc = "off"
    /\ gFirst = <<>>
    /\ gSecond = <<>>

VARIABLES
    \* one Timer over its lifetime (SpecTimer)
    tmr,           \* the Timer's m_start, m_stopped, m_duration
    tmNow,        \* Clock::now()
    tmReturns,    \* what the stop() calls returned, in call order
    tmPrinted,    \* the durations the destructor printed
    tmpc          \* live, destroyed

timerVars == <<tmr, tmNow, tmReturns, tmPrinted, tmpc>>

TimerOff ==
    /\ tmr = [start |-> 0, stopped |-> FALSE, duration |-> 0, live |-> FALSE]
    /\ tmNow = 0
    /\ tmReturns = <<>>
    /\ tmPrinted = <<>>
    /\ tmpc = "off"

VARIABLES
    \* runBenchmarkWithPreCalc (SpecPreCalc)
    paramStart, paramEnd, paramStep,  \* its arguments
    preIterations,                    \* its argument iterations
    param,                            \* the outer loop's param
    preIter,                          \* the inner loop's iter
    preCalcData,                      \* auto preCalcData = preCalc(param)
    iterationTimes,                   \* the samples of the current param
    averages,                         \* the vector returned
    preCalcLog,                       \* the params preCalc was called with
    funcLog,                          \* the calls of func: param, data received
    prepc                             \* test, precalc, inner, call, avg, returned

preVars == <<paramStart, paramEnd, paramStep, preIterations, param, preIter,
             preCalcData, iterationTimes, averages, preCalcLog, funcLog, prepc>>

PreOff ==
    /\ paramStart = 0 /\ paramEnd = 0 /\ paramStep = 0 /\ preIterations = 0
    /\ param = 0 /\ preIter = 0
    /\ preCalcData = <<>>
    /\ iterationTimes = <<>>
    /\ averages = <<>>
    /\ preCalcLog = <<>>
    /\ funcLog = <<>>
    /\ prepc = "off"

VARIABLES
    \* runSearchBenchmarks for one size of the list (SpecSearch)
    searchVariant,   \* which of the two search_benchmarks sources
    searchSize,      \* int size = sizes[i]
    searchIters,     \* iterations
    searchData,      \* runSearchBenchmarks' data
    searchKey,       \* runSearchBenchmarks' key
    searchFn,        \* the search function being timed: linear, binary
    runData,         \* runBenchmarkVec's data
    runKey,          \* runBenchmarkVec's key
    runIter,         \* runBenchmarkVec's loop counter
    runTimes,        \* the number of samples runBenchmarkVec has pushed
    searchLog,       \* the timings recorded: function, vector, key, result
    searchpc         \* generate, key, run, runkey, loop, done, terminated

searchVars == <<searchVariant, searchSize, searchIters, searchData, searchKey,
                searchFn, runData, runKey, runIter, runTimes, searchLog,
                searchpc>>

SearchOff ==
    /\ searchVariant = "none"
    /\ searchSize = 0 /\ searchIters = 0
    /\ searchData = <<>> /\ searchKey = 0
    /\ searchFn = "none"
    /\ runData = <<>> /\ runKey = 0 /\ runIter = 0 /\ runTimes = 0
    /\ searchLog = <<>>
    /\ searchpc = "off"

VARIABLES
    \* one call of binarySearch (SpecBinary)
    bsData,       \* the vector searched
    bsKey,        \* the key
    bsLeft,       \* left
    bsRight,      \* right
    bsSteps,      \* the iterations of the loop so far
    bsResult,     \* the value returned
    bspc          \* loop, returned

bsVars == <<bsData, bsKey, bsLeft, bsRight, bsSteps, bsResult, bspc>>

BinaryOff ==
    /\ bsData = <<>> /\ bsKey = 0
    /\ bsLeft = 0 /\ bsRight = 0 /\ bsSteps = 0
    /\ bsResult = 0
    /\ bspc = "off"

VARIABLES
    \* main's handling of --maxSize (SpecMaxSize)
    maxSize,      \* int maxSize = std::stoi(argv[++i])
    sizeStep,     \* int step = maxSize / 10
    sizeS,        \* the loop's s
    sizes,        \* the size list
    sizepc        \* parse, loop, done, terminated

sizeVars == <<maxSize, sizeStep, sizeS, sizes, sizepc>>

MaxSizeOff ==
    /\ maxSize = 0 /\ sizeStep = 0 /\ sizeS = 0
    /\ sizes = <<>>
    /\ sizepc = "off"

\* what a specification of one component leaves alone
notCall  == <<benchVars, statsVars, argsVars, genVars,
              timerVars, preVars, searchVars, bsVars, sizeVars>>
notBench == <<vars, statsVars, argsVars, genVars,
              timerVars, preVars, searchVars, bsVars, sizeVars>>
notStats == <<vars, benchVars, argsVars, genVars,
              timerVars, preVars, searchVars, bsVars, sizeVars>>
notArgs  == <<vars, benchVars, statsVars, genVars,
              timerVars, preVars, searchVars, bsVars, sizeVars>>
notGen   == <<vars, benchVars, statsVars, argsVars,
              timerVars, preVars, searchVars, bsVars, sizeVars>>
notTimer == <<vars, benchVars, statsVars, argsVars, genVars,
              preVars, searchVars, bsVars, sizeVars>>
notPre   == <<vars, benchVars, statsVars, argsVars, genVars,
              timerVars, searchVars, bsVars, sizeVars>>
notSearch == <<vars, benchVars, statsVars, argsVars, genVars,
               timerVars, preVars, bsVars, sizeVars>>
notBinary == <<vars, benchVars, statsVars, argsVars, genVars,
               timerVars, preVars, searchVars, sizeVars>>
notMaxSize == <<vars, benchVars, statsVars, argsVars, genVars,
                timerVars, preVars, searchVars, bsVars>>
allVars  == <<vars, benchVars, statsVars, argsVars, genVars,
              timerVars, preVars, searchVars, bsVars, sizeVars>>

\* the components of the search benchmark and of utils, not running
UtilsOff == TimerOff /\ PreOff /\ SearchOff /\ BinaryOff /\ MaxSizeOff

CallOff ==
    /\ matrix = <<>> /\ threshold = 0 /\ numThreads = 0
    /\ fn = "none"
    /\ pc = "off"
    /\ numRows = 0 /\ chunkSize = 0 /\ t = 0 /\ joined = 0
    /\ results = <<>>
    /\ globalCount = 0
    /\ threads = <<>>
    /\ ret = [container |-> 0, local |-> 0]
    /\ returned = {}
    /\ err = "none"

\* sdiv by zero yields 0 on AArch64; on x86 the division traps (see Chunk)
DivByZeroResults == {0}

CallInit(ins) ==
    /\ \E in \in ins :
          /\ matrix = in[1]
          /\ threshold = in[2]
          /\ numThreads = in[3]
    /\ fn \in {"container", "local"}
    /\ pc = "alloc"
    /\ numRows = 0
    /\ chunkSize = 0
    /\ t = 0
    /\ joined = 0
    /\ results = <<>>
    /\ globalCount = 0
    /\ threads = <<>>
    /\ ret = [container |-> 0, local |-> 0]
    /\ returned = {}
    /\ err = "none"
    /\ BenchOff /\ StatsOff /\ ArgsOff /\ GenOff /\ UtilsOff

Init == CallInit(Inputs)

\* ------------------------------------------------------------- main thread
\* The loop test that follows a step of the spawn loop (or precedes its first).
AfterSpawn(next, n) == IF next < n THEN "spawn" ELSE "join"

\* numRows, results / globalCount, threads.reserve(numThreads).
\* A negative numThreads converts to a huge size_t: the vector constructor
\* (reserve, in countWithLocalCounter) throws std::length_error, which nothing
\* catches.
Alloc ==
    /\ pc = "alloc"
    /\ IF numThreads < 0
          THEN /\ err' = "length_error"
               /\ pc' = "terminated"
               /\ UNCHANGED <<numRows, results, globalCount, threads, t, joined>>
          ELSE /\ numRows' = Len(matrix)
               /\ results' = IF fn = "container"
                                THEN [k \in 1..numThreads |-> 0] ELSE <<>>
               /\ globalCount' = 0
               /\ threads' = <<>>
               /\ t' = 0
               /\ joined' = 0
               /\ pc' = "chunk"
               /\ err' = err
    /\ UNCHANGED <<inputs, fn, chunkSize, ret, returned>>

\* int chunkSize = (numRows + numThreads - 1) / numThreads;
\* With numThreads = 0 the division is undefined: it traps, or yields a value.
Chunk ==
    /\ pc = "chunk"
    /\ \/ /\ numThreads > 0
          /\ chunkSize' = ChunkSize(numRows, numThreads)
          /\ pc' = AfterSpawn(0, numThreads)
          /\ err' = err
       \/ /\ numThreads = 0
          /\ chunkSize' \in DivByZeroResults
          /\ pc' = AfterSpawn(0, numThreads)
          /\ err' = err
       \/ /\ numThreads = 0
          /\ err' = "SIGFPE"
          /\ pc' = "terminated"
          /\ chunkSize' = chunkSize
    /\ UNCHANGED <<inputs, fn, numRows, t, joined, results, globalCount,
                   threads, ret, returned>>

\* The std::thread the loop body emplaces: the lambda's captures and locals.
NewThread(w, chunk, rows) ==
    [ startRow   |-> StartRow(w, chunk),
      endRow     |-> EndRow(StartRow(w, chunk), chunk, rows),
      i          |-> StartRow(w, chunk),
      j          |-> 0,
      localCount |-> 0,
      state      |-> "run",
      scanWrites |-> 0,      \* writes to shared memory made inside the loops
      publishes  |-> 0 ]     \* writes to shared memory made after the loops

\* one iteration of: for (int t = 0; t < numThreads; ++t) threads.emplace_back(...)
Spawn ==
    /\ pc = "spawn"
    /\ t < numThreads
    /\ threads' = Append(threads, NewThread(t, chunkSize, numRows))
    /\ t' = t + 1
    /\ pc' = AfterSpawn(t + 1, numThreads)
    /\ UNCHANGED <<inputs, fn, numRows, chunkSize, joined, results, globalCount,
                   ret, returned, err>>

\* a failed spawn that is swallowed: the loop ends, the call goes on with the
\* workers it has
SpawnFailSkip ==
    /\ pc = "spawn"
    /\ t < numThreads
    /\ err' = err
    /\ pc' = "join"
    /\ UNCHANGED <<inputs, fn, numRows, chunkSize, t, joined, results,
                   globalCount, threads, ret, returned>>

\* the std::thread constructor throws std::system_error: the exception leaves
\* the function with joinable threads in the vector, the process terminates
SpawnFail ==
    /\ pc = "spawn"
    /\ t < numThreads
    /\ err' = "system_error"
    /\ pc' = "terminated"
    /\ UNCHANGED <<inputs, fn, numRows, chunkSize, t, joined, results,
                   globalCount, threads, ret, returned>>

\* a join that does not wait for the thread (a detach)
JoinableAlways(th) == TRUE

\* th.join() returns once the thread's function has returned
Joinable(th) == th.state = "done"

\* one iteration of: for (auto& th : threads) th.join();
Join ==
    /\ pc = "join"
    /\ IF joined < Len(threads)
          THEN /\ Joinable(threads[joined + 1])
               /\ joined' = joined + 1
               /\ pc' = "join"
          ELSE /\ pc' = "reduce"
               /\ joined' = joined
    /\ UNCHANGED <<inputs, fn, numRows, chunkSize, t, results, globalCount,
                   threads, ret, returned, err>>

\* what the function returns: the sum of the slots / globalCount.load()
Total(f, slots, global) == IF f = "container" THEN SumSeq(slots) ELSE global

\* the reduction and the return of its value
Reduce ==
    /\ pc = "reduce"
    /\ ret' = [ret EXCEPT ![fn] = Total(fn, results, globalCount)]
    /\ returned' = returned \cup {fn}
    /\ pc' = "returned"
    /\ UNCHANGED <<inputs, fn, numRows, chunkSize, t, joined, results,
                   globalCount, threads, err>>

\* main: countWithContainer has returned (its locals are gone),
\* countWithLocalCounter is called on the same image
NextCall ==
    /\ pc = "returned"
    /\ fn = "container"
    /\ fn' = "local"
    /\ pc' = "alloc"
    /\ numRows' = 0
    /\ chunkSize' = 0
    /\ t' = 0
    /\ joined' = 0
    /\ results' = <<>>
    /\ globalCount' = 0
    /\ threads' = <<>>
    /\ UNCHANGED <<inputs, ret, returned, err>>

\* ----------------------------------------------------------------- workers
Running(w) ==
    /\ pc # "terminated"
    /\ w \in 1..Len(threads)
    /\ threads[w].state = "run"

\* the loop position after the cell (i, j) of a row with len cells
NextCell(th, len) ==
    IF th.j + 1 < len THEN [th EXCEPT !.j = th.j + 1]
                      ELSE [th EXCEPT !.i = th.i + 1, !.j = 0]

\* countWithContainer's lambda, one iteration of the inner loop:
\*     if (value > threshold) ++results[t];
ContainerScan(w) ==
    /\ fn = "container"
    /\ Running(w)
    /\ threads[w].i < threads[w].endRow
    /\ LET th  == threads[w]
           row == matrix[th.i + 1]
       IN IF Len(row) = 0
             THEN /\ threads' = [threads EXCEPT ![w] = NextCell(th, 0)]
                  /\ results' = results
             ELSE IF Matches(row[th.j + 1], threshold)
                     THEN /\ results' = [results EXCEPT ![w] = @ + 1]
                          /\ threads' = [threads EXCEPT ![w] =
                                 [NextCell(th, Len(row)) EXCEPT
                                     !.scanWrites = @ + 1]]
                     ELSE /\ results' = results
                          /\ threads' = [threads EXCEPT ![w] =
                                             NextCell(th, Len(row))]
    /\ UNCHANGED <<inputs, fn, pc, numRows, chunkSize, t, joined, globalCount,
                   ret, returned, err>>

\* a publish that stores into the first slot whatever the worker
ContainerPublishFirst(w) ==
    /\ fn = "container"
    /\ Running(w)
    /\ threads[w].i >= threads[w].endRow
    /\ results' = [results EXCEPT ![1] = threads[w].localCount]
    /\ threads' = [threads EXCEPT ![w] =
                      [@ EXCEPT !.state = "done", !.publishes = @ + 1]]
    /\ UNCHANGED <<inputs, fn, pc, numRows, chunkSize, t, joined, globalCount,
                   ret, returned, err>>

\* countWithContainer's lambda, after the loops:  results[t] = localCount;
ContainerPublish(w) ==
    /\ fn = "container"
    /\ Running(w)
    /\ threads[w].i >= threads[w].endRow
    /\ results' = [results EXCEPT ![w] = threads[w].localCount]
    /\ threads' = [threads EXCEPT ![w] =
                      [@ EXCEPT !.state = "done", !.publishes = @ + 1]]
    /\ UNCHANGED <<inputs, fn, pc, numRows, chunkSize, t, joined, globalCount,
                   ret, returned, err>>

\* the inner loop adding to the shared counter, as countWithContainer's does to
\* its slot:  if (value > threshold) globalCount.fetch_add(1);
LocalScanShared(w) ==
    /\ fn = "local"
    /\ Running(w)
    /\ threads[w].i < threads[w].endRow
    /\ LET th  == threads[w]
           row == matrix[th.i + 1]
       IN IF Len(row) = 0
             THEN /\ threads' = [threads EXCEPT ![w] = NextCell(th, 0)]
                  /\ globalCount' = globalCount
             ELSE IF Matches(row[th.j + 1], threshold)
                     THEN /\ globalCount' = globalCount + 1
                          /\ threads' = [threads EXCEPT ![w] =
                                 [NextCell(th, Len(row)) EXCEPT
                                     !.scanWrites = @ + 1]]
                     ELSE /\ globalCount' = globalCount
                          /\ threads' = [threads EXCEPT ![w] =
                                             NextCell(th, Len(row))]
    /\ UNCHANGED <<inputs, fn, pc, numRows, chunkSize, t, joined, results,
                   ret, returned, err>>

\* countWithLocalCounter's lambda, one iteration of the inner loop:
\*     if (value > threshold) ++localCount;
LocalScan(w) ==
    /\ fn = "local"
    /\ Running(w)
    /\ threads[w].i < threads[w].endRow
    /\ LET th  == threads[w]
           row == matrix[th.i + 1]
       IN IF Len(row) = 0
             THEN threads' = [threads EXCEPT ![w] = NextCell(th, 0)]
             ELSE IF Matches(row[th.j + 1], threshold)
                     THEN threads' = [threads EXCEPT ![w] =
                              [NextCell(th, Len(row)) EXCEPT
                                  !.localCount = @ + 1]]
                     ELSE threads' = [threads EXCEPT ![w] =
                                          NextCell(th, Len(row))]
    /\ UNCHANGED <<inputs, fn, pc, numRows, chunkSize, t, joined, results,
                   globalCount, ret, returned, err>>

\* countWithLocalCounter's lambda, after the loops:
\*     globalCount.fetch_add(localCount, std::memory_order_relaxed);
LocalPublish(w) ==
    /\ fn = "local"
    /\ Running(w)
    /\ threads[w].i >= threads[w].endRow
    /\ globalCount' = FetchAdd(globalCount, threads[w].localCount)
    /\ threads' = [threads EXCEPT ![w] =
                      [@ EXCEPT !.state = "done", !.publishes = @ + 1]]
    /\ UNCHANGED <<inputs, fn, pc, numRows, chunkSize, t, joined, results,
                   ret, returned, err>>

Next ==
    \/ Alloc /\ UNCHANGED notCall
    \/ Chunk /\ UNCHANGED notCall
    \/ Spawn /\ UNCHANGED notCall
    \/ SpawnFail /\ UNCHANGED notCall
    \/ Join /\ UNCHANGED notCall
    \/ Reduce /\ UNCHANGED notCall
    \/ NextCall /\ UNCHANGED notCall
    \/ \E w \in 1..Len(threads) : ContainerScan(w) /\ UNCHANGED notCall
    \/ \E w \in 1..Len(threads) : ContainerPublish(w) /\ UNCHANGED notCall
    \/ \E w \in 1..Len(threads) : LocalScan(w) /\ UNCHANGED notCall
    \/ \E w \in 1..Len(threads) : LocalPublish(w) /\ UNCHANGED notCall

Spec == Init /\ [][Next]_allVars

\* ============================================================== statistics
\* A double is an exact rational n/d in lowest terms (kind "num"), a NaN, an
\* infinity of sign n, or the square root of n/d (kind "root"): the model does
\* the arithmetic of the code without its rounding.
Abs(x) == IF x < 0 THEN -x ELSE x

RECURSIVE GCD(_, _)
GCD(a, b) == IF b = 0 THEN a ELSE GCD(b, a % b)

Num(n, d) ==
    LET g == GCD(Abs(n), d)
    IN  [kind |-> "num", n |-> n \div g, d |-> d \div g]

NaN == [kind |-> "nan", n |-> 0, d |-> 1]

Inf(sign) == [kind |-> "inf", n |-> sign, d |-> 1]

\* the conversion of an int to double
DblOf(k) == Num(k, 1)

DblNeg(x) == [x EXCEPT !.n = -x.n]

DblAdd(x, y) ==
    CASE x.kind = "num" /\ y.kind = "num" -> Num(x.n * y.d + y.n * x.d, x.d * y.d)
      [] x.kind = "inf" /\ y.kind = "num" -> x
      [] x.kind = "num" /\ y.kind = "inf" -> y
      [] x.kind = "inf" /\ y.kind = "inf" /\ x.n = y.n -> x
      [] OTHER -> NaN

DblSub(x, y) == IF y.kind = "nan" THEN NaN ELSE DblAdd(x, DblNeg(y))

DblMul(x, y) ==
    CASE x.kind = "num" /\ y.kind = "num" -> Num(x.n * y.n, x.d * y.d)
      [] x.kind \in {"num", "inf"} /\ y.kind \in {"num", "inf"}
            /\ x.n # 0 /\ y.n # 0 ->
            Inf(IF (x.n < 0) = (y.n < 0) THEN 1 ELSE -1)
      [] OTHER -> NaN

\* x / k for a double x and an integer k converted to double: a division by
\* zero is no error, 0.0 / 0 is a NaN and x / 0 an infinity
DblDiv(x, k) ==
    CASE x.kind = "nan" -> NaN
      [] x.kind = "inf" -> IF k < 0 THEN DblNeg(x) ELSE x
      [] k = 0 -> IF x.n = 0 THEN NaN ELSE Inf(IF x.n < 0 THEN -1 ELSE 1)
      [] k > 0 -> Num(x.n, x.d * k)
      [] OTHER -> Num(-x.n, x.d * (-k))

\* std::sqrt: the root of a rational is kept as that rational
DblSqrt(x) ==
    CASE x.kind = "num" /\ x.n >= 0 -> [x EXCEPT !.kind = "root"]
      [] x.kind = "inf" /\ x.n > 0 -> x
      [] OTHER -> NaN

\* double sum = 0.0; for (double t : values) sum += t;
RECURSIVE SumDbl(_)
SumDbl(values) ==
    IF values = <<>> THEN DblOf(0)
    ELSE DblAdd(SumDbl(SubSeq(values, 1, Len(values) - 1)), values[Len(values)])

\* runBenchmarks: containerAvg[i] = sumC / iterations
Mean(values, n) == DblDiv(SumDbl(values), n)

\* utils/math.h: return sum / times.size()
calculateAverage(values) == DblDiv(SumDbl(values), Len(values))

\* double sumSq = 0.0; for (double v : values) { diff = v - avg; sumSq += diff * diff; }
RECURSIVE SumSq(_, _)
SumSq(values, avg) ==
    IF values = <<>> THEN DblOf(0)
    ELSE LET diff == DblSub(values[Len(values)], avg)
         IN  DblAdd(SumSq(SubSeq(values, 1, Len(values) - 1), avg),
                    DblMul(diff, diff))

\* the sample standard deviation: the sum of squares over size - 1
computeStdDevSample(values, avg) ==
    DblSqrt(DblDiv(SumSq(values, avg), Len(values) - 1))

\* return std::sqrt(sumSq / values.size())
computeStdDev(values, avg) ==
    DblSqrt(DblDiv(SumSq(values, avg), Len(values)))

\* utils/math.h: the same computation
calculateStdDev(values, avg) ==
    DblSqrt(DblDiv(SumSq(values, avg), Len(values)))

\* -------------------------------------------------------------- SpecStats
\* The mean and the standard deviation of one sample vector, as
\* runBenchmarks computes them for containerTimes[i] and localTimes[i] and as
\* utils/math.h computes them.
MaxSamples == 3
MaxSample == 3

RECURSIVE SeqsUpTo(_, _)
SeqsUpTo(S, n) ==
    IF n = 0 THEN {<<>>}
    ELSE LET shorter == SeqsUpTo(S, n - 1)
         IN  shorter \cup { Append(q, x) : q \in shorter, x \in S }

\* timer.stop() returns a duration: a double that is not negative
SampleVectors == SeqsUpTo({ DblOf(k) : k \in 0..MaxSample }, MaxSamples)

StatsInit ==
    /\ sFn \in {"runBenchmarks", "math.h"}
    /\ sValues \in SampleVectors
    /\ spc = "avg"
    /\ sAvg = NoValue
    /\ sStd = NoValue
    /\ CallOff /\ BenchOff /\ ArgsOff /\ GenOff /\ UtilsOff

\* runBenchmarks divides the sum by iterations, which is the number of samples
\* its sweep has pushed to the vector; math.h divides by times.size()
StatsAvg ==
    /\ spc = "avg"
    /\ sAvg' = IF sFn = "runBenchmarks" THEN Mean(sValues, Len(sValues))
                                        ELSE calculateAverage(sValues)
    /\ spc' = "std"
    /\ UNCHANGED <<sFn, sValues, sStd>>

StatsStd ==
    /\ spc = "std"
    /\ sStd' = IF sFn = "runBenchmarks" THEN computeStdDev(sValues, sAvg)
                                        ELSE calculateStdDev(sValues, sAvg)
    /\ spc' = "done"
    /\ UNCHANGED <<sFn, sValues, sAvg>>

StatsNext ==
    \/ StatsAvg /\ UNCHANGED notStats
    \/ StatsStd /\ UNCHANGED notStats

SpecStats == StatsInit /\ [][StatsNext]_allVars

\* -------------------------------------------------------------- SpecBench
\* runBenchmarks.  A counting call is its spawn loop, its workers' returns
\* and its join loop; the clock advances by one with every step.
MaxSweepThreads == 2
MaxIterations == 2
MaxBenchRows == 1
MaxBenchCols == 1

\* Matrix image = generateRandomMatrix(1000, 1000) of the second block
LocalBlockSize == 1000

\* a benchmarks_MacOsM1.csv left by an earlier run
StaleFile == [exists |-> TRUE, rows |-> <<"stale">>]

BenchInit ==
    /\ maxThreads \in (-1)..MaxSweepThreads
    /\ iterations \in 0..MaxIterations
    /\ benchRows \in (-1)..MaxBenchRows
    /\ benchCols \in 0..MaxBenchCols
    /\ bpc = "alloc"
    /\ file \in {NoFile, StaleFile}
    /\ BenchLocals
    /\ CallOff /\ StatsOff /\ ArgsOff /\ GenOff /\ UtilsOff

\* std::vector<std::vector<double>> containerTimes(maxThreads), localTimes(maxThreads);
\* then the outer loop's numThreads = 1
BenchAlloc ==
    /\ bpc = "alloc"
    /\ IF maxThreads < 0
          THEN /\ out' = "terminate: length_error"
               /\ bpc' = "terminated"
               /\ UNCHANGED <<times, sweepThreads>>
          ELSE /\ times' = [container |-> [k \in 1..maxThreads |-> <<>>],
                            local     |-> [k \in 1..maxThreads |-> <<>>]]
               /\ sweepThreads' = 1
               /\ bpc' = "outer"
               /\ out' = out
    /\ UNCHANGED <<maxThreads, iterations, benchRows, benchCols, strategy, iter,
                   image, spawned, running, now, timer, elapsed, stats, file,
                   events, trialLog>>

\* the outer loop's test: numThreads <= maxThreads; then the inner loop's iter = 0
OuterTest ==
    /\ bpc = "outer"
    /\ IF sweepThreads <= maxThreads
          THEN /\ iter' = 0
               /\ bpc' = "inner"
          ELSE /\ iter' = iter
               /\ bpc' = "stats"
    /\ UNCHANGED <<maxThreads, iterations, benchRows, benchCols, strategy,
                   sweepThreads, image, spawned, running, now, timer, elapsed,
                   times, stats, file, out, events, trialLog>>

\* the inner loop's test: iter < iterations; when it fails, ++numThreads
InnerTest ==
    /\ bpc = "inner"
    /\ IF iter < iterations
          THEN /\ strategy' = "container"
               /\ bpc' = "gen"
               /\ sweepThreads' = sweepThreads
          ELSE /\ sweepThreads' = sweepThreads + 1
               /\ bpc' = "outer"
               /\ strategy' = strategy
    /\ UNCHANGED <<maxThreads, iterations, benchRows, benchCols, iter, image,
                   spawned, running, now, timer, elapsed, times, stats, file,
                   out, events, trialLog>>

\* the dimensions a block generates its image with
BlockDims(s, rws, cls) ==
    IF s = "container" THEN <<rws, cls>> ELSE <<LocalBlockSize, LocalBlockSize>>

\* Matrix image = generateRandomMatrix(...): a negative size throws
Generate ==
    /\ bpc = "gen"
    /\ LET dims == BlockDims(strategy, benchRows, benchCols)
       IN  IF SizesOk(dims[1], dims[2])
             THEN /\ image' = dims
                  /\ events' = <<"generate">>
                  /\ bpc' = "timer"
                  /\ out' = out
             ELSE /\ out' = "terminate: length_error"
                  /\ bpc' = "terminated"
                  /\ UNCHANGED <<image, events>>
    /\ now' = now + 1
    /\ UNCHANGED <<maxThreads, iterations, benchRows, benchCols, strategy,
                   sweepThreads, iter, spawned, running, timer, elapsed, times,
                   stats, file, trialLog>>

\* Timer< std::micro > timer(...): m_start = Clock::now(), m_stopped = false
TimerStart ==
    /\ bpc = "timer"
    /\ timer' = [start |-> now, stopped |-> FALSE, duration |-> 0, live |-> TRUE]
    /\ events' = Append(events, "timer_start")
    /\ bpc' = "call"
    /\ UNCHANGED <<maxThreads, iterations, benchRows, benchCols, strategy,
                   sweepThreads, iter, image, spawned, running, now, elapsed,
                   times, stats, file, out, trialLog>>

\* the counting function is entered: countWithContainer / countWithLocalCounter
CallEnter ==
    /\ bpc = "call"
    /\ spawned' = 0
    /\ running' = 0
    /\ events' = Append(events, "call")
    /\ now' = now + 1
    /\ bpc' = "spawn"
    /\ UNCHANGED <<maxThreads, iterations, benchRows, benchCols, strategy,
                   sweepThreads, iter, image, timer, elapsed, times, stats,
                   file, out, trialLog>>

\* one iteration of the call's threads.emplace_back loop
BenchSpawn ==
    /\ bpc = "spawn"
    /\ spawned < sweepThreads
    /\ spawned' = spawned + 1
    /\ running' = running + 1
    /\ now' = now + 1
    /\ bpc' = AfterSpawn(spawned + 1, sweepThreads)
    /\ UNCHANGED <<maxThreads, iterations, benchRows, benchCols, strategy,
                   sweepThreads, iter, image, timer, elapsed, times, stats,
                   file, out, events, trialLog>>

\* the std::thread constructor throws: the process terminates
BenchSpawnFail ==
    /\ bpc = "spawn"
    /\ spawned < sweepThreads
    /\ out' = "terminate: system_error"
    /\ bpc' = "terminated"
    /\ now' = now + 1
    /\ UNCHANGED <<maxThreads, iterations, benchRows, benchCols, strategy,
                   sweepThreads, iter, image, spawned, running, timer, elapsed,
                   times, stats, file, events, trialLog>>

\* a worker's lambda returns
WorkerReturn ==
    /\ bpc \in {"spawn", "join"}
    /\ running > 0
    /\ running' = running - 1
    /\ now' = now + 1
    /\ UNCHANGED <<maxThreads, iterations, benchRows, benchCols, bpc, strategy,
                   sweepThreads, iter, image, spawned, timer, elapsed, times,
                   stats, file, out, events, trialLog>>

\* a call that returns without waiting for its workers
CallReturnEarly ==
    /\ bpc = "join"
    /\ events' = Append(events, "return")
    /\ now' = now + 1
    /\ bpc' = "stop"
    /\ UNCHANGED <<maxThreads, iterations, benchRows, benchCols, strategy,
                   sweepThreads, iter, image, spawned, running, timer, elapsed,
                   times, stats, file, out, trialLog>>

\* the join loop has joined every worker, the call returns its total
CallReturn ==
    /\ bpc = "join"
    /\ running = 0
    /\ events' = Append(events, "return")
    /\ now' = now + 1
    /\ bpc' = "stop"
    /\ UNCHANGED <<maxThreads, iterations, benchRows, benchCols, strategy,
                   sweepThreads, iter, image, spawned, running, timer, elapsed,
                   times, stats, file, out, trialLog>>

\* Timer::stop: if ( m_stopped ) return 0; m_duration = end - m_start; ...
Stopped(tm, clock) ==
    IF tm.stopped THEN tm
    ELSE [tm EXCEPT !.duration = clock - tm.start, !.stopped = TRUE]

\* a stop() that measures again whenever it is called
StopValueAgain(tm, clock) == clock - tm.start

StopValue(tm, clock) == IF tm.stopped THEN 0 ELSE clock - tm.start

\* auto t = timer.stop();
TimerStop ==
    /\ bpc = "stop"
    /\ timer' = Stopped(timer, now)
    /\ elapsed' = StopValue(timer, now)
    /\ events' = Append(events, "timer_stop")
    /\ bpc' = "push"
    /\ UNCHANGED <<maxThreads, iterations, benchRows, benchCols, strategy,
                   sweepThreads, iter, image, spawned, running, now, times,
                   stats, file, out, trialLog>>

\* a push to the first entry whatever the thread count
PushSampleFirst(tbl, n, sample) == [tbl EXCEPT ![1] = Append(@, sample)]

\* containerTimes[ numThreads - 1 ].push_back( t )
PushSample(tbl, n, sample) == [tbl EXCEPT ![n] = Append(@, sample)]

\* an inner loop that advances by two
IterSkip(it) == it + 2

\* ++iter
IterNext(it) == it + 1

\* the push that ends a block: the timer goes out of scope; after the first
\* block comes the second, after the second the inner loop's ++iter
Push ==
    /\ bpc = "push"
    /\ times' = [times EXCEPT
                    ![strategy] = PushSample(@, sweepThreads, DblOf(elapsed))]
    /\ trialLog' = Append(trialLog,
                          [strategy |-> strategy, numThreads |-> spawned,
                           iter |-> iter, slot |-> sweepThreads,
                           sample |-> DblOf(elapsed)])
    /\ events' = Append(events, "push")
    /\ timer' = NoTimer
    /\ IF strategy = "container"
          THEN /\ strategy' = "local"
               /\ bpc' = "gen"
               /\ iter' = iter
          ELSE /\ strategy' = "container"
               /\ bpc' = "inner"
               /\ iter' = IterNext(iter)
    /\ UNCHANGED <<maxThreads, iterations, benchRows, benchCols, sweepThreads,
                   image, spawned, running, now, elapsed, stats, file, out>>

\* the four vectors the loop over i fills from the two tables
ComputedStats(tbl, n, its) ==
    [containerAvg |-> [k \in 1..n |-> Mean(tbl.container[k], its)],
     containerStd |-> [k \in 1..n |->
                          computeStdDev(tbl.container[k], Mean(tbl.container[k], its))],
     localAvg     |-> [k \in 1..n |-> Mean(tbl.local[k], its)],
     localStd     |-> [k \in 1..n |->
                          computeStdDev(tbl.local[k], Mean(tbl.local[k], its))]]

ComputeStats ==
    /\ bpc = "stats"
    /\ stats' = ComputedStats(times, maxThreads, iterations)
    /\ bpc' = "open"
    /\ UNCHANGED <<maxThreads, iterations, benchRows, benchCols, strategy,
                   sweepThreads, iter, image, spawned, running, now, timer,
                   elapsed, times, file, out, events, trialLog>>

\* the header and the four rows of the CSV
CsvRows(st, n) ==
    << <<"ThreadCount">> \o [k \in 1..n |-> k],
       <<"ContainerAvg">> \o st.containerAvg,
       <<"ContainerStd">> \o st.containerStd,
       <<"LocalCounterAvg">> \o st.localAvg,
       <<"LocalCounterStd">> \o st.localStd >>

\* an open in append mode: the file keeps what it holds
OpenOkAppend ==
    /\ bpc = "open"
    /\ file' = [exists |-> TRUE, rows |-> file.rows]
    /\ bpc' = "write"
    /\ UNCHANGED <<maxThreads, iterations, benchRows, benchCols, strategy,
                   sweepThreads, iter, image, spawned, running, now, timer,
                   elapsed, times, stats, out, events, trialLog>>

\* std::ofstream ofs(filename) succeeds: the file is created or truncated
OpenOk ==
    /\ bpc = "open"
    /\ file' = [exists |-> TRUE, rows |-> <<>>]
    /\ bpc' = "write"
    /\ UNCHANGED <<maxThreads, iterations, benchRows, benchCols, strategy,
                   sweepThreads, iter, image, spawned, running, now, timer,
                   elapsed, times, stats, out, events, trialLog>>

\* a failed open after which the rows are written all the same
OpenFailWrites ==
    /\ bpc = "open"
    /\ out' = "cannot open file"
    /\ file' = [exists |-> TRUE, rows |-> CsvRows(stats, maxThreads)]
    /\ bpc' = "exit"
    /\ UNCHANGED <<maxThreads, iterations, benchRows, benchCols, strategy,
                   sweepThreads, iter, image, spawned, running, now, timer,
                   elapsed, times, stats, events, trialLog>>

\* if (!ofs) { std::cerr << "Error: cannot open file ..."; return; }
OpenFail ==
    /\ bpc = "open"
    /\ out' = "cannot open file"
    /\ file' = file
    /\ bpc' = "exit"
    /\ UNCHANGED <<maxThreads, iterations, benchRows, benchCols, strategy,
                   sweepThreads, iter, image, spawned, running, now, timer,
                   elapsed, times, stats, events, trialLog>>

\* the rows are written, the file is closed, the operator is told
WriteCsv ==
    /\ bpc = "write"
    /\ file' = [exists |-> TRUE, rows |-> file.rows \o CsvRows(stats, maxThreads)]
    /\ out' = "written"
    /\ bpc' = "exit"
    /\ UNCHANGED <<maxThreads, iterations, benchRows, benchCols, strategy,
                   sweepThreads, iter, image, spawned, running, now, timer,
                   elapsed, times, stats, events, trialLog>>

BenchNext ==
    \/ BenchAlloc /\ UNCHANGED notBench
    \/ OuterTest /\ UNCHANGED notBench
    \/ InnerTest /\ UNCHANGED notBench
    \/ Generate /\ UNCHANGED notBench
    \/ TimerStart /\ UNCHANGED notBench
    \/ CallEnter /\ UNCHANGED notBench
    \/ BenchSpawn /\ UNCHANGED notBench
    \/ BenchSpawnFail /\ UNCHANGED notBench
    \/ WorkerReturn /\ UNCHANGED notBench
    \/ CallReturn /\ UNCHANGED notBench
    \/ TimerStop /\ UNCHANGED notBench
    \/ Push /\ UNCHANGED notBench
    \/ ComputeStats /\ UNCHANGED notBench
    \/ OpenOk /\ UNCHANGED notBench
    \/ OpenFail /\ UNCHANGED notBench
    \/ WriteCsv /\ UNCHANGED notBench

SpecBench == BenchInit /\ [][BenchNext]_allVars

\* ---------------------------------------------------------------- SpecGen
\* The repository's three generateMatrix functions, each called twice with
\* the same arguments.
GenMaxRows == 257
GenMaxCols == 2

\* the benchmark's first version: the same loops as generateMatrix
generateMatrixFirst(rows, cols) ==
    [r \in 1..rows |-> [c \in 1..cols |-> ((r - 1) + (c - 1)) % 256]]

\* the benchmark's templated version:
\*     return Matrix( rows, std::vector<int>(cols, 150) );
generateMatrixFilled(rows, cols) ==
    [r \in 1..rows |-> [c \in 1..cols |-> 150]]

GenVariants == {"parallel_chunks.cpp", "part_001:11", "part_001:166"}

Generated(variant, rows, cols) ==
    CASE variant = "parallel_chunks.cpp" -> generateMatrix(rows, cols)
      [] variant = "part_001:11"         -> generateMatrixFirst(rows, cols)
      [] variant = "part_001:166"        -> generateMatrixFilled(rows, cols)

GenInit ==
    /\ gVariant \in GenVariants
    /\ gRows \in (-1)..GenMaxRows
    /\ gCols \in (-1)..GenMaxCols
    /\ gpc = "first"
    /\ gFirst = <<>>
    /\ gSecond = <<>>
    /\ CallOff /\ BenchOff /\ StatsOff /\ ArgsOff /\ UtilsOff

GenFirst ==
    /\ gpc = "first"
    /\ IF SizesOk(gRows, gCols)
          THEN /\ gFirst' = Generated(gVariant, gRows, gCols)
               /\ gpc' = "second"
          ELSE /\ gFirst' = gFirst
               /\ gpc' = "terminated"
    /\ UNCHANGED <<gVariant, gRows, gCols, gSecond>>

GenSecond ==
    /\ gpc = "second"
    /\ gSecond' = Generated(gVariant, gRows, gCols)
    /\ gpc' = "done"
    /\ UNCHANGED <<gVariant, gRows, gCols, gFirst>>

GenNext ==
    \/ GenFirst /\ UNCHANGED notGen
    \/ GenSecond /\ UNCHANGED notGen

SpecGen == GenInit /\ [][GenNext]_allVars

\* --------------------------------------------------------------- SpecArgs
\* main's benchmark mode: the option loop and the call of runBenchmarks, in
\* parallel_chunks.cpp and in the templated version of the program.
MaxArgs == 4

defaultRows == 1000
defaultCols == 1000
defaultMaxThreads == 30
hardcodedIterations == 20
defaultIterations == 5

NumberTokens == {"2", "3"}

OptionTokens == {"--threads", "--rows", "--cols", "--rowscols", "--iterations"}

\* std::stoi throws std::invalid_argument when no conversion can be done
StoiOk(tok) == tok \in NumberTokens

\* std::stoi of a decimal numeral
stoi(tok) == CASE tok = "2" -> 2 [] tok = "3" -> 3

MainVariants == {"parallel_chunks.cpp", "part_001:436"}

\* the options the loop of a main tests for
Handled(variant) ==
    IF variant = "parallel_chunks.cpp" THEN {"--threads", "--rows", "--cols"}
                                       ELSE OptionTokens

\* const int iterations = 20 / int iterations = defaultIterations
InitialIterations(variant) ==
    IF variant = "parallel_chunks.cpp" THEN hardcodedIterations
                                       ELSE defaultIterations

ArgLists ==
    { <<"benchmark">> \o q : q \in SeqsUpTo(OptionTokens \cup NumberTokens, MaxArgs) }
        \cup {<<>>, <<"2">>, <<"--threads", "2">>}

ArgsInit ==
    /\ mainVariant \in MainVariants
    /\ argv \in ArgLists
    /\ argi = 0
    /\ mainMaxThreads = 0 /\ mainRows = 0 /\ mainCols = 0 /\ mainIterations = 0
    /\ mpc = "mode"
    /\ benchCall = NoCall
    /\ CallOff /\ BenchOff /\ StatsOff /\ GenOff /\ UtilsOff

\* if (argc > 1 && std::string(argv[1]) == "benchmark") and the defaults
ModeTest ==
    /\ mpc = "mode"
    /\ IF Len(argv) >= 1 /\ argv[1] = "benchmark"
          THEN /\ mainMaxThreads' = defaultMaxThreads
               /\ mainRows' = defaultRows
               /\ mainCols' = defaultCols
               /\ mainIterations' = InitialIterations(mainVariant)
               /\ argi' = 2
               /\ mpc' = "parse"
          ELSE /\ mpc' = "default"
               /\ UNCHANGED <<argi, mainMaxThreads, mainRows, mainCols,
                              mainIterations>>
    /\ UNCHANGED <<mainVariant, argv, benchCall>>

\* main's variables after the option opt with the value v
WithOption(opt, v) ==
    [maxThreads |-> IF opt = "--threads" THEN v ELSE mainMaxThreads,
     rows       |-> IF opt \in {"--rows", "--rowscols"} THEN v ELSE mainRows,
     cols       |-> IF opt \in {"--cols", "--rowscols"} THEN v ELSE mainCols,
     iterations |-> IF opt = "--iterations" THEN v ELSE mainIterations]

\* one pass of the loop's body, and its ++i
ParseStep ==
    /\ mpc = "parse"
    /\ argi <= Len(argv)
    /\ IF argv[argi] \in Handled(mainVariant) /\ argi + 1 <= Len(argv)
          THEN IF StoiOk(argv[argi + 1])
                 THEN LET set == WithOption(argv[argi], stoi(argv[argi + 1]))
                      IN  /\ mainMaxThreads' = set.maxThreads
                          /\ mainRows' = set.rows
                          /\ mainCols' = set.cols
                          /\ mainIterations' = set.iterations
                          /\ argi' = argi + 2
                          /\ mpc' = "parse"
                 ELSE /\ mpc' = "terminated"
                      /\ UNCHANGED <<argi, mainMaxThreads, mainRows, mainCols,
                                     mainIterations>>
          ELSE /\ argi' = argi + 1
               /\ mpc' = "parse"
               /\ UNCHANGED <<mainMaxThreads, mainRows, mainCols, mainIterations>>
    /\ UNCHANGED <<mainVariant, argv, benchCall>>

\* the loop ends: generateMatrix(rows, cols), then
\* runBenchmarks( image, threshold, maxThreads, iterations, rows, cols )
RunBenchmarksCall ==
    /\ mpc = "parse"
    /\ argi > Len(argv)
    /\ IF SizesOk(mainRows, mainCols)
          THEN /\ benchCall' = [maxThreads |-> mainMaxThreads,
                                iterations |-> mainIterations,
                                rows |-> mainRows, cols |-> mainCols]
               /\ mpc' = "called"
          ELSE /\ benchCall' = benchCall
               /\ mpc' = "terminated"
    /\ UNCHANGED <<mainVariant, argv, argi, mainMaxThreads, mainRows, mainCols,
                   mainIterations>>

ArgsNext ==
    \/ ModeTest /\ UNCHANGED notArgs
    \/ ParseStep /\ UNCHANGED notArgs
    \/ RunBenchmarksCall /\ UNCHANGED notArgs

SpecArgs == ArgsInit /\ [][ArgsNext]_allVars

\* --------------------------------------------------------------- SpecLive
\* The counting functions and runBenchmarks under fair scheduling: the main
\* thread keeps taking its steps and every worker thread keeps taking its
\* own.  A failed thread creation is an event no fairness is assumed of.
MaxLiveRows == 3
MaxLiveThreads == 4

LiveInputs ==
    { generateMatrix(r, c) : r \in 0..MaxLiveRows, c \in 0..MaxGenCols }
        \X Thresholds \X ((-1)..MaxLiveThreads)

LiveInit == CallInit(LiveInputs) \/ BenchInit

LiveNext == Next \/ BenchNext

\* the steps of the main thread in a counting function
CallMain ==
    (Alloc \/ Chunk \/ Spawn \/ Join \/ Reduce \/ NextCall) /\ UNCHANGED notCall

\* the steps of worker w
CallWorker(w) ==
    (ContainerScan(w) \/ ContainerPublish(w) \/ LocalScan(w) \/ LocalPublish(w))
        /\ UNCHANGED notCall

\* the steps of the main thread in runBenchmarks' sweep
SweepMain ==
    (BenchAlloc \/ OuterTest \/ InnerTest \/ Generate \/ TimerStart \/ CallEnter
        \/ BenchSpawn \/ CallReturn \/ TimerStop \/ Push) /\ UNCHANGED notBench

\* the steps of the workers of runBenchmarks' calls
BenchWorkers == WorkerReturn /\ UNCHANGED notBench

SpecLive ==
    /\ LiveInit
    /\ [][LiveNext]_allVars
    /\ WF_allVars(CallMain)
    /\ \A w \in 1..MaxLiveThreads : WF_allVars(CallWorker(w))
    /\ WF_allVars(SweepMain)
    /\ WF_allVars(BenchWorkers)

\* -------------------------------------------------------------- SpecTimer
\* One Timer of utils: constructed, stopped any number of times while the
\* steady clock advances, then destroyed.
MaxClock == 4
MaxStops == 3

\* Timer(title): m_start(Clock::now()), m_stopped(false)
TimerInit ==
    /\ tmNow \in 0..1
    /\ tmr = [start |-> tmNow, stopped |-> FALSE, duration |-> 0, live |-> TRUE]
    /\ tmReturns = <<>>
    /\ tmPrinted = <<>>
    /\ tmpc = "live"
    /\ CallOff /\ BenchOff /\ StatsOff /\ ArgsOff /\ GenOff
    /\ PreOff /\ SearchOff /\ BinaryOff /\ MaxSizeOff

\* the steady clock advances
ClockTick ==
    /\ tmpc = "live"
    /\ tmNow < MaxClock
    /\ tmNow' = tmNow + 1
    /\ UNCHANGED <<tmr, tmReturns, tmPrinted, tmpc>>

\* double stop()
TimerStopCall ==
    /\ tmpc = "live"
    /\ Len(tmReturns) < MaxStops
    /\ tmr' = Stopped(tmr, tmNow)
    /\ tmReturns' = Append(tmReturns, StopValue(tmr, tmNow))
    /\ UNCHANGED <<tmNow, tmPrinted, tmpc>>

\* ~Timer(): if (m_stopped) return; else print Clock::now() - m_start
TimerDestroy ==
    /\ tmpc = "live"
    /\ tmPrinted' = IF tmr.stopped THEN tmPrinted
                    ELSE Append(tmPrinted, tmNow - tmr.start)
    /\ tmr' = [tmr EXCEPT !.live = FALSE]
    /\ tmpc' = "destroyed"
    /\ UNCHANGED <<tmNow, tmReturns>>

TimerNext ==
    \/ ClockTick /\ UNCHANGED notTimer
    \/ TimerStopCall /\ UNCHANGED notTimer
    \/ TimerDestroy /\ UNCHANGED notTimer

SpecTimer == TimerInit /\ [][TimerNext]_allVars

\* ------------------------------------------------------------ SpecPreCalc
\* runBenchmarkWithPreCalc as benchmarkObjectOrientedSizes calls it: preCalc
\* builds a vector of baseCount * (globalIndex + 1) entities with random
\* fields, benchFunc takes the vector by value and updates every entity.
\* The callers of the repository pass parameters from 0 and an iteration count
\* that is not negative.
MaxParamStart == 1
MaxParamEnd == 2
MaxParamStep == 2
MaxPreIterations == 2
MaxField == 1
baseCount == 1

\* static_cast<DataType>(rand()) / RAND_MAX, for each of x, y, vx and vy
Entities ==
    { [x |-> DblOf(a), y |-> DblOf(a), vx |-> DblOf(a), vy |-> DblOf(a)] :
        a \in 0..MaxField }

\* Entity::update(dt): x += vx * dt; y += vy * dt; x *= 1.000001; y *= 1.000001
update(e, dt) ==
    LET factor == Num(1000001, 1000000)
    IN  [e EXCEPT !.x = DblMul(DblAdd(e.x, DblMul(e.vx, dt)), factor),
                  !.y = DblMul(DblAdd(e.y, DblMul(e.vy, dt)), factor)]

\* what timer.stop() returns for a call of func: no time, or some
CallTimes == {0, 1}

\* preCalc: std::vector<Entity> entities(baseCount * (globalIndex + 1)), filled
preCalc(globalIndex, e) == [k \in 1..(baseCount * (globalIndex + 1)) |-> e]

\* benchFunc's loop over its parameter: entities[i].update(0.016f)
benchFunc(entities) ==
    [k \in 1..Len(entities) |-> update(entities[k], Num(16, 1000))]

\* a benchFunc that takes the vector by reference: the caller's vector is the
\* one updated
CallerDataByReference(callerData, calleeData) == calleeData

\* benchFunc takes std::vector<Entity> by value: the caller's preCalcData is
\* what it was, whatever the callee did to its copy
CallerData(callerData, calleeData) == callerData

PreInit ==
    /\ paramStart \in 0..MaxParamStart
    /\ paramEnd \in 0..MaxParamEnd
    /\ paramStep \in 1..MaxParamStep
    /\ preIterations \in 0..MaxPreIterations
    /\ param = paramStart
    /\ preIter = 0
    /\ preCalcData = <<>>
    /\ iterationTimes = <<>>
    /\ averages = <<>>
    /\ preCalcLog = <<>>
    /\ funcLog = <<>>
    /\ prepc = "test"
    /\ CallOff /\ BenchOff /\ StatsOff /\ ArgsOff /\ GenOff
    /\ TimerOff /\ SearchOff /\ BinaryOff /\ MaxSizeOff

\* for (int param = paramStart; param <= paramEnd; ...)
PreOuterTest ==
    /\ prepc = "test"
    /\ prepc' = IF param <= paramEnd THEN "precalc" ELSE "returned"
    /\ UNCHANGED <<paramStart, paramEnd, paramStep, preIterations, param,
                   preIter, preCalcData, iterationTimes, averages, preCalcLog,
                   funcLog>>

\* auto preCalcData = preCalc(param); iterationTimes.reserve(iterations)
PreCalcCall ==
    /\ prepc = "precalc"
    /\ \E e \in Entities :
          /\ preCalcData' = preCalc(param, e)
          /\ preCalcLog' = Append(preCalcLog,
                                  [param |-> param, data |-> preCalc(param, e)])
    /\ iterationTimes' = <<>>
    /\ preIter' = 0
    /\ prepc' = "inner"
    /\ UNCHANGED <<paramStart, paramEnd, paramStep, preIterations, param,
                   averages, funcLog>>

\* for (int iter = 0; iter < iterations; ++iter)
PreInnerTest ==
    /\ prepc = "inner"
    /\ prepc' = IF preIter < preIterations THEN "call" ELSE "avg"
    /\ UNCHANGED <<paramStart, paramEnd, paramStep, preIterations, param,
                   preIter, preCalcData, iterationTimes, averages, preCalcLog,
                   funcLog>>

\* Timer timer; auto result = func(preCalcData, param);
\* iterationTimes.push_back(timer.stop()); ++iter
PreFuncCall ==
    /\ prepc = "call"
    /\ funcLog' = Append(funcLog, [param |-> param, iter |-> preIter,
                                   data |-> preCalcData])
    /\ preCalcData' = CallerData(preCalcData, benchFunc(preCalcData))
    /\ \E d \in CallTimes : iterationTimes' = Append(iterationTimes, DblOf(d))
    /\ preIter' = preIter + 1
    /\ prepc' = "inner"
    /\ UNCHANGED <<paramStart, paramEnd, paramStep, preIterations, param,
                   averages, preCalcLog>>

\* double avg = calculateAverage(iterationTimes); averages.push_back(avg);
\* param += paramStep
PreAverage ==
    /\ prepc = "avg"
    /\ averages' = Append(averages, calculateAverage(iterationTimes))
    /\ param' = param + paramStep
    /\ prepc' = "test"
    /\ UNCHANGED <<paramStart, paramEnd, paramStep, preIterations, preIter,
                   preCalcData, iterationTimes, preCalcLog, funcLog>>

PreNext ==
    \/ PreOuterTest /\ UNCHANGED notPre
    \/ PreCalcCall /\ UNCHANGED notPre
    \/ PreInnerTest /\ UNCHANGED notPre
    \/ PreFuncCall /\ UNCHANGED notPre
    \/ PreAverage /\ UNCHANGED notPre

SpecPreCalc == PreInit /\ [][PreNext]_allVars

\* ------------------------------------------------------------- SpecBinary
\* One call of binarySearch on a vector of distinct values in increasing
\* order; linearSearch is the scan it is compared with.
MaxSearchLen == 4
MaxSearchVal == 2

\* int linearSearch: the first i with data[i] == key, or -1
RECURSIVE linearSearchFrom(_, _, _)
linearSearchFrom(data, key, i) ==
    IF i >= Len(data) THEN -1
    ELSE IF data[i + 1] = key THEN i
    ELSE linearSearchFrom(data, key, i + 1)

linearSearch(data, key) == linearSearchFrom(data, key, 0)

\* int mid = left + (right - left) / 2, for left <= right
Mid(left, right) == left + ((right - left) \div 2)

\* a search that keeps mid in the interval when the key is greater
NewLeftSame(mid) == mid

\* left = mid + 1
NewLeft(mid) == mid + 1

\* right = mid - 1
NewRight(mid) == mid - 1

\* one pass of binarySearch's loop body
BinaryStep(data, key, left, right) ==
    LET mid == Mid(left, right)
    IN  IF data[mid + 1] = key
        THEN [returns |-> TRUE, value |-> mid, left |-> left, right |-> right]
        ELSE IF data[mid + 1] < key
        THEN [returns |-> FALSE, value |-> -1, left |-> NewLeft(mid), right |-> right]
        ELSE [returns |-> FALSE, value |-> -1, left |-> left, right |-> NewRight(mid)]

\* while (left <= right) { ... } return -1
RECURSIVE binarySearchFrom(_, _, _, _)
binarySearchFrom(data, key, left, right) ==
    IF left > right THEN -1
    ELSE LET st == BinaryStep(data, key, left, right)
         IN  IF st.returns THEN st.value
             ELSE binarySearchFrom(data, key, st.left, st.right)

\* int binarySearch: left = 0, right = size - 1
binarySearch(data, key) == binarySearchFrom(data, key, 0, Len(data) - 1)

\* the elements of a set of integers in increasing order
RECURSIVE Increasing(_)
Increasing(S) ==
    IF S = {} THEN <<>>
    ELSE LET least == CHOOSE x \in S : \A y \in S : x <= y
         IN  <<least>> \o Increasing(S \ {least})

SortedVectors ==
    { Increasing(S) : S \in { T \in SUBSET ((-1)..MaxSearchVal) :
                                  Cardinality(T) <= MaxSearchLen } }

SearchKeys == (-2)..(MaxSearchVal + 1)

\* the passes a loop is followed for
MaxPasses == MaxSearchLen + 2

\* no value returned yet
NoResult == -2

BinaryInit ==
    /\ bsData \in SortedVectors
    /\ bsKey \in SearchKeys
    /\ bsLeft = 0
    /\ bsRight = Len(bsData) - 1
    /\ bsSteps = 0
    /\ bsResult = NoResult
    /\ bspc = "loop"
    /\ CallOff /\ BenchOff /\ StatsOff /\ ArgsOff /\ GenOff
    /\ TimerOff /\ PreOff /\ SearchOff /\ MaxSizeOff

\* while (left <= right): one pass
BinaryLoop ==
    /\ bspc = "loop"
    /\ bsLeft <= bsRight
    /\ bsSteps < MaxPasses
    /\ LET st == BinaryStep(bsData, bsKey, bsLeft, bsRight)
       IN  /\ bsLeft' = st.left
           /\ bsRight' = st.right
           /\ bsResult' = IF st.returns THEN st.value ELSE bsResult
           /\ bspc' = IF st.returns THEN "returned" ELSE "loop"
    /\ bsSteps' = bsSteps + 1
    /\ UNCHANGED <<bsData, bsKey>>

\* the loop's condition fails: return -1
BinaryExit ==
    /\ bspc = "loop"
    /\ bsLeft > bsRight
    /\ bsResult' = -1
    /\ bspc' = "returned"
    /\ UNCHANGED <<bsData, bsKey, bsLeft, bsRight, bsSteps>>

BinaryNext ==
    \/ BinaryLoop /\ UNCHANGED notBinary
    \/ BinaryExit /\ UNCHANGED notBinary

SpecBinary == BinaryInit /\ [][BinaryNext]_allVars

\* ------------------------------------------------------------ SpecMaxSize
\* main's handling of `--maxSize n` in the search benchmark.  The vector
\* grows while the loop runs; a vector that cannot grow any more ends the
\* program with std::bad_alloc.
MaxMaxSize == 21
MaxListed == 25

\* the first sizes of the default list
SIZES == <<10, 20, 50>>

MaxSizeInit ==
    /\ maxSize \in 0..MaxMaxSize
    /\ sizeStep = 0
    /\ sizeS = 0
    /\ sizes = SIZES
    /\ sizepc = "parse"
    /\ CallOff /\ BenchOff /\ StatsOff /\ ArgsOff /\ GenOff
    /\ TimerOff /\ PreOff /\ SearchOff /\ BinaryOff

\* sizes.clear(); int step = maxSize / 10; int s = step
MaxSizeParse ==
    /\ sizepc = "parse"
    /\ sizes' = <<>>
    /\ sizeStep' = maxSize \div 10
    /\ sizeS' = maxSize \div 10
    /\ sizepc' = "loop"
    /\ UNCHANGED maxSize

\* s <= maxSize: sizes.push_back(s); s += step
MaxSizePush ==
    /\ sizepc = "loop"
    /\ sizeS <= maxSize
    /\ Len(sizes) < MaxListed
    /\ sizes' = Append(sizes, sizeS)
    /\ sizeS' = sizeS + sizeStep
    /\ UNCHANGED <<maxSize, sizeStep, sizepc>>

\* s <= maxSize, and push_back cannot allocate
MaxSizeExhausted ==
    /\ sizepc = "loop"
    /\ sizeS <= maxSize
    /\ Len(sizes) >= MaxListed
    /\ sizepc' = "terminated"
    /\ UNCHANGED <<maxSize, sizeStep, sizeS, sizes>>

\* s > maxSize: the loop ends
MaxSizeDone ==
    /\ sizepc = "loop"
    /\ sizeS > maxSize
    /\ sizepc' = "done"
    /\ UNCHANGED <<maxSize, sizeStep, sizeS, sizes>>

MaxSizeNext ==
    \/ MaxSizeParse /\ UNCHANGED notMaxSize
    \/ MaxSizePush /\ UNCHANGED notMaxSize
    \/ MaxSizeExhausted /\ UNCHANGED notMaxSize
    \/ MaxSizeDone /\ UNCHANGED notMaxSize

SpecMaxSize == MaxSizeInit /\ [][MaxSizeNext]_allVars

\* ------------------------------------------------------------- SpecSearch
\* runSearchBenchmarks for one size of the list, in the two sources of the
\* search benchmark: the vector-based searches, linear then binary.  A read
\* outside a vector is undefined: it ends the program or yields any value.
MaxSearchSize == 10
MaxSearchIters == 2

SearchVariants == {"part_003", "part_004"}

\* what a read outside a vector may yield
GarbageValues == {0, 1}

\* std::vector<ElementType> data(size); data[i] = i
generateSortedVector(size) == [k \in 1..size |-> k - 1]

\* int key = keyTransform(data.back()): _key * 0.5 truncated in part_003;
\* _key / 2 - 1 in part_004, unsigned, where the wrap of 0 - 1 to 2^64 - 1
\* becomes -1 in the conversion to int
keyTransform(variant, key) ==
    IF variant = "part_003" THEN key \div 2 ELSE (key \div 2) - 1

SearchInit ==
    /\ searchVariant \in SearchVariants
    /\ searchSize \in 0..MaxSearchSize
    /\ searchIters \in 1..MaxSearchIters
    /\ searchData = <<>> /\ searchKey = 0
    /\ searchFn = "none"
    /\ runData = <<>> /\ runKey = 0 /\ runIter = 0 /\ runTimes = 0
    /\ searchLog = <<>>
    /\ searchpc = "generate"
    /\ CallOff /\ BenchOff /\ StatsOff /\ ArgsOff /\ GenOff
    /\ TimerOff /\ PreOff /\ BinaryOff /\ MaxSizeOff

\* int size = sizes[i]; std::vector<ElementType> data = generateSortedVector(size)
SearchGenerate ==
    /\ searchpc = "generate"
    /\ searchData' = generateSortedVector(searchSize)
    /\ searchpc' = "key"
    /\ UNCHANGED <<searchVariant, searchSize, searchIters, searchKey, searchFn,
                   runData, runKey, runIter, runTimes, searchLog>>

\* int key = keyTransform(data.back())
SearchKey ==
    /\ searchpc = "key"
    /\ searchData # <<>>
    /\ searchKey' = keyTransform(searchVariant, searchData[Len(searchData)])
    /\ searchFn' = "linear"
    /\ searchpc' = "run"
    /\ UNCHANGED <<searchVariant, searchSize, searchIters, searchData, runData,
                   runKey, runIter, runTimes, searchLog>>

\* data.back() of an empty vector
SearchKeyOfEmpty ==
    /\ searchpc = "key"
    /\ searchData = <<>>
    /\ \/ /\ searchpc' = "terminated"
          /\ UNCHANGED <<searchKey, searchFn>>
       \/ /\ \E g \in GarbageValues : searchKey' = keyTransform(searchVariant, g)
          /\ searchFn' = "linear"
          /\ searchpc' = "run"
    /\ UNCHANGED <<searchVariant, searchSize, searchIters, searchData, runData,
                   runKey, runIter, runTimes, searchLog>>

\* runBenchmarkVec(searchFunction, key, iterations): its parameter size is the
\* key; data = generateSortedVector(size), which throws std::length_error for
\* a negative size
RunGenerate ==
    /\ searchpc = "run"
    /\ IF searchKey < 0
       THEN /\ searchpc' = "terminated"
            /\ UNCHANGED runData
       ELSE /\ runData' = generateSortedVector(searchKey)
            /\ searchpc' = "runkey"
    /\ runIter' = 0
    /\ runTimes' = 0
    /\ UNCHANGED <<searchVariant, searchSize, searchIters, searchData,
                   searchKey, searchFn, runKey, searchLog>>

\* int key = data[size - 1]
RunKey ==
    /\ searchpc = "runkey"
    /\ runData # <<>>
    /\ runKey' = runData[Len(runData)]
    /\ searchpc' = "loop"
    /\ UNCHANGED <<searchVariant, searchSize, searchIters, searchData,
                   searchKey, searchFn, runData, runIter, runTimes, searchLog>>

\* data[size - 1] with size 0
RunKeyOfEmpty ==
    /\ searchpc = "runkey"
    /\ runData = <<>>
    /\ \/ /\ searchpc' = "terminated"
          /\ UNCHANGED runKey
       \/ /\ runKey' \in GarbageValues
          /\ searchpc' = "loop"
    /\ UNCHANGED <<searchVariant, searchSize, searchIters, searchData,
                   searchKey, searchFn, runData, runIter, runTimes, searchLog>>

\* for (int i = 0; i < iterations; ++i): timer, searchFunction(data, key),
\* times.push_back(timer.stop())
RunIteration ==
    /\ searchpc = "loop"
    /\ runIter < searchIters
    /\ searchLog' = Append(searchLog,
          [size |-> searchSize, fn |-> searchFn, elements |-> Len(runData),
           key |-> runKey,
           result |-> IF searchFn = "linear" THEN linearSearch(runData, runKey)
                      ELSE binarySearch(runData, runKey)])
    /\ runIter' = runIter + 1
    /\ runTimes' = runTimes + 1
    /\ UNCHANGED <<searchVariant, searchSize, searchIters, searchData,
                   searchKey, searchFn, runData, runKey, searchpc>>

\* return times: the binary search is benchmarked after the linear search
RunReturn ==
    /\ searchpc = "loop"
    /\ runIter >= searchIters
    /\ IF searchFn = "linear"
       THEN searchFn' = "binary" /\ searchpc' = "run"
       ELSE searchFn' = searchFn /\ searchpc' = "done"
    /\ UNCHANGED <<searchVariant, searchSize, searchIters, searchData,
                   searchKey, runData, runKey, runIter, runTimes, searchLog>>

SearchNext ==
    \/ SearchGenerate /\ UNCHANGED notSearch
    \/ SearchKey /\ UNCHANGED notSearch
    \/ SearchKeyOfEmpty /\ UNCHANGED notSearch
    \/ RunGenerate /\ UNCHANGED notSearch
    \/ RunKey /\ UNCHANGED notSearch
    \/ RunKeyOfEmpty /\ UNCHANGED notSearch
    \/ RunIteration /\ UNCHANGED notSearch
    \/ RunReturn /\ UNCHANGED notSearch

SpecSearch == SearchInit /\ [][SearchNext]_allVars

\* ================================================================== claims
\* The reference the claims compare with: a sequential scan of rows lo..hi-1
\* (counted from 0) for cells greater than the threshold.
CountInRange(G, thr, lo, hi) ==
    Cardinality(UNION { { <<r, c>> : c \in { k \in 1..Len(G[r]) : G[r][k] > thr } } :
                          r \in ((lo + 1)..hi) \cap (1..Len(G)) })

SeqCount(G, thr) == CountInRange(G, thr, 0, Len(G))

\* every worker of the current call has been spawned
AllSpawned == numThreads >= 1 /\ Len(threads) = numThreads

\* the rows worker record th scans: for (i = startRow; i < endRow; ++i)
RowsOf(th) == th.startRow..(th.endRow - 1)

\* what worker w hands to the reduction: its slot, or the value it adds
Contribution(w) ==
    IF fn = "container" THEN results[w] ELSE threads[w].localCount

\* the joins are over: the reduction is about to run, or the call has returned
AfterJoins == pc \in {"reduce", "returned"}

\* ---- C1: for N >= 1 countWithContainer and countWithLocalCounter return the
\* same total on the same grid and threshold, and that total is the
\* sequential count of the cells greater than the threshold.
C1_Equivalence ==
    (returned = {"container", "local"} /\ numThreads >= 1)
        => /\ ret["container"] = ret["local"]
           /\ ret["local"] = SeqCount(matrix, threshold)

\* ---- C2: whatever the interleaving of the workers' scans and fetch_adds,
\* countWithLocalCounter (N >= 1) returns the sequential count.
C2_LocalCounterCorrect ==
    ("local" \in returned /\ numThreads >= 1)
        => ret["local"] = SeqCount(matrix, threshold)

C2_Witness ==
    /\ "local" \in returned
    /\ Len(threads) >= 2
    /\ threads[1].localCount > 0
    /\ threads[2].localCount > 0

\* ---- C3: with chunkSize = ceil(rows / N), the workers' row ranges are
\* pairwise disjoint, ordered by worker id, inside the grid, and every row of
\* [0, rows) is in exactly one of them.
C3_PartitionCoverage ==
    AllSpawned =>
        /\ chunkSize * numThreads >= numRows
        /\ (chunkSize - 1) * numThreads < numRows
        /\ \A r \in 0..(numRows - 1) :
              Cardinality({ w \in 1..numThreads : r \in RowsOf(threads[w]) }) = 1
        /\ \A w \in 1..numThreads :
              /\ threads[w].startRow = (w - 1) * chunkSize
              /\ RowsOf(threads[w]) \subseteq 0..(numRows - 1)
        /\ \A w1, w2 \in 1..numThreads :
              w1 < w2 => \A r1 \in RowsOf(threads[w1]), r2 \in RowsOf(threads[w2]) :
                            r1 < r2

C3_Witness ==
    /\ AllSpawned
    /\ numRows >= 3
    /\ \E w \in 1..numThreads : RowsOf(threads[w]) = {}
    /\ \E w \in 1..numThreads : Cardinality(RowsOf(threads[w])) >= 2

\* ---- C4 as stated: with 1 <= N <= rows every worker gets at least one row.
C4_NoEmptyRangeUpToRows ==
    (AllSpawned /\ numThreads <= numRows)
        => \A w \in 1..numThreads : threads[w].startRow < threads[w].endRow

\* ---- C4 amended: worker t's range is empty exactly when t * chunkSize >=
\* rows; every worker gets at least one row when (N-1) * chunkSize < rows.
C4_EmptyRangeCharacterised ==
    numThreads >= 1 =>
        /\ \A w \in 1..Len(threads) :
              (threads[w].startRow < threads[w].endRow)
                  <=> ((w - 1) * chunkSize < numRows)
        /\ (AllSpawned /\ (numThreads - 1) * chunkSize < numRows)
              => \A w \in 1..numThreads : RowsOf(threads[w]) # {}

C4_Witness ==
    /\ AllSpawned
    /\ numThreads <= numRows
    /\ RowsOf(threads[numThreads]) = {}
    /\ RowsOf(threads[1]) # {}

\* ---- C5: with N > rows both functions spawn and join exactly N workers, a
\* worker with an empty range contributes 0, and the total is the sequential
\* count.
C5_DegeneratePartition ==
    (numThreads > Len(matrix) /\ pc = "reduce")
        => /\ Len(threads) = numThreads
           /\ joined = numThreads
           /\ \A w \in 1..Len(threads) :
                 RowsOf(threads[w]) = {} => Contribution(w) = 0
           /\ Total(fn, results, globalCount) = SeqCount(matrix, threshold)

\* ---- C6: a call with numThreads <= 0 fails with InvalidArgument before the
\* chunk size is computed and before any thread is spawned.  Read leniently:
\* the call is still before the division, or it has failed there with an
\* exception (the vector's std::length_error is let pass for InvalidArgument).
C6_InvalidArgument ==
    numThreads <= 0
        => \/ pc \in {"alloc", "chunk"} /\ err = "none"
           \/ /\ pc = "terminated"
              /\ err \in {"InvalidArgument", "length_error"}
              /\ threads = <<>>

\* ---- C7: exactly N workers are spawned, and the reduction (the read of the
\* slots, the load of globalCount) happens, and the call returns, only with
\* every worker finished and joined.
C7_JoinBarrier ==
    /\ pc = "join" => Len(threads) = numThreads
    /\ AfterJoins =>
          /\ Len(threads) = numThreads
          /\ joined = numThreads
          /\ \A w \in 1..Len(threads) : threads[w].state = "done"

C7_Witness ==
    /\ pc = "reduce"
    /\ Len(threads) >= 3
    /\ Total(fn, results, globalCount) > 0

\* ---- C8: a countWithContainer worker counts in its local variable, writes
\* nothing shared while it scans, and stores its local count into its slot
\* exactly once, after the scan.
C8_PublishOnce ==
    fn = "container" =>
        \A w \in 1..Len(threads) :
            LET th == threads[w] IN
            /\ th.scanWrites = 0
            /\ th.publishes = IF th.state = "done" THEN 1 ELSE 0
            /\ th.state = "done" =>
                  /\ th.i >= th.endRow
                  /\ results[w] = th.localCount
                  /\ th.localCount =
                        CountInRange(matrix, threshold, th.startRow, th.endRow)

\* ---- C9: a countWithLocalCounter worker writes nothing shared while it
\* scans and does exactly one fetch_add, after its scan, of its local count;
\* so globalCount is the sum of the local counts of the finished workers.
C9_AtomicDiscipline ==
    fn = "local" =>
        /\ \A w \in 1..Len(threads) :
              LET th == threads[w] IN
              /\ th.scanWrites = 0
              /\ th.publishes = IF th.state = "done" THEN 1 ELSE 0
              /\ th.state = "done" => th.i >= th.endRow
        /\ globalCount =
              SumSeq([w \in 1..Len(threads) |->
                         IF threads[w].state = "done"
                            THEN threads[w].localCount ELSE 0])

C9_Witness ==
    /\ fn = "local"
    /\ \E w \in 1..Len(threads) :
          /\ threads[w].state = "done"
          /\ RowsOf(threads[w]) = {}
    /\ \E w \in 1..Len(threads) :
          /\ threads[w].state = "done"
          /\ threads[w].localCount > 0
    /\ \E w \in 1..Len(threads) :
          /\ threads[w].state = "run"
          /\ threads[w].localCount > 0

\* ---- C10: under both strategies a finished worker's partial result is the
\* number of cells of its rows strictly greater than the threshold; on the
\* 4x4 grid (i+j), threshold 3, N = 2: ranges [0,2) and [2,4), partial
\* results 1 and 5, total 6.
C10_ThresholdSemantics ==
    /\ \A w \in 1..Len(threads) :
          threads[w].state = "done" =>
              Contribution(w) = CountInRange(matrix, threshold,
                                    threads[w].startRow, threads[w].endRow)
    /\ (matrix = ExampleGrid /\ threshold = 3 /\ numThreads = 2 /\ pc = "reduce")
          => /\ <<threads[1].startRow, threads[1].endRow>> = <<0, 2>>
             /\ <<threads[2].startRow, threads[2].endRow>> = <<2, 4>>
             /\ <<Contribution(1), Contribution(2)>> = <<1, 5>>
             /\ Total(fn, results, globalCount) = 6

\* what a call with one worker returns: the worker's range is the whole grid,
\* countWithContainer's worker publishes its untouched localCount
SingleWorkerTotal(f, G, thr) ==
    LET rws   == Len(G)
        chunk == ChunkSize(rws, 1)
        lo    == StartRow(0, chunk)
        hi    == EndRow(lo, chunk, rws)
    IN  IF f = "local" THEN CountInRange(G, thr, lo, hi) ELSE 0

\* C11: for a fixed grid and threshold and for each strategy separately, the
\* total a call returns with numThreads >= 1 workers is the total the call
\* returns with one worker: the worker count and the partition granularity
\* do not change the result.
C11_WorkerCountInvariance ==
    \A f \in returned :
        numThreads >= 1 => ret[f] = SingleWorkerTotal(f, matrix, threshold)

C11_Witness ==
    /\ returned = {"container", "local"}
    /\ numThreads >= 3
    /\ Len(matrix) >= 2
    /\ numThreads < Len(matrix)
    /\ ret["local"] >= 2

\* C13: a failed thread creation is fatal: the call has not returned and
\* never does (the process is terminated with the error, nothing of the call
\* can run any more, so the spawn is not retried), and a call that gets past
\* its spawn loop has created all numThreads workers.
C13_SpawnFailureFatal ==
    /\ err = "system_error" =>
          /\ pc = "terminated"
          /\ fn \notin returned
          /\ t = Len(threads)
          /\ Len(threads) < numThreads
          /\ ~ ENABLED (Spawn \/ Join \/ Reduce \/ NextCall)
    /\ pc \in {"join", "reduce", "returned"} /\ numThreads >= 0 =>
          /\ Len(threads) = numThreads
          /\ err = "none"

C13_Witness ==
    /\ err = "system_error"
    /\ fn = "local"
    /\ Len(threads) >= 1
    /\ \E w \in 1..Len(threads) : threads[w].state = "run"

\* the samples as integers, their sum, and the sum of the squares of
\* size * (v - mean) = size * v - sum
SampleInts(values) == [k \in 1..Len(values) |-> values[k].n]

SquaredDeviations(values) ==
    LET ints == SampleInts(values)
        sum  == SumSeq(ints)
    IN  SumSeq([k \in 1..Len(ints) |->
                   (Len(ints) * ints[k] - sum) * (Len(ints) * ints[k] - sum)])

C17_EmptyInput ==
    sValues = <<>> =>
        /\ spc \in {"std", "done"} => sAvg.kind = "EmptyInput"
        /\ spc = "done" => sStd.kind = "EmptyInput"

\* C12: every generateMatrix of the repository returns a rows x cols grid
\* whose cell (i, j) is (i + j) mod 256, a value of 0..255, and returns the
\* same grid when called again with the same arguments.
C12_DeterministicGeneration ==
    gpc = "done" =>
        /\ gSecond = gFirst
        /\ Len(gFirst) = gRows
        /\ \A r \in 1..Len(gFirst) :
              /\ Len(gFirst[r]) = gCols
              /\ \A c \in 1..Len(gFirst[r]) :
                    /\ gFirst[r][c] \in 0..255
                    /\ gFirst[r][c] = ((r - 1) + (c - 1)) % 256

\* the sweep's loops are over
SweepDone == bpc \in {"stats", "open", "write", "exit"}

Strategies == {"container", "local"}

\* the recorded trials of a strategy whose sample went to entry n of its table
TrialsAt(s, n) ==
    SelectSeq(trialLog, LAMBDA e : e.strategy = s /\ e.slot = n)

\* C14: after a sweep with maxThreads >= 1 and iterations >= 1 each
\* strategy's table has maxThreads entries, and for every numThreads of
\* 1..maxThreads the entry at index numThreads - 1 holds exactly iterations
\* samples, each the sample of a trial whose call ran numThreads workers.
C14_TableShape ==
    SweepDone /\ maxThreads >= 1 /\ iterations >= 1 =>
        \A s \in Strategies :
            /\ Len(times[s]) = maxThreads
            /\ \A n \in 1..maxThreads :
                  /\ Len(times[s][n]) = iterations
                  /\ times[s][n] =
                        [k \in 1..Len(TrialsAt(s, n)) |-> TrialsAt(s, n)[k].sample]
                  /\ \A k \in 1..Len(TrialsAt(s, n)) :
                        TrialsAt(s, n)[k].numThreads = n

C14_Witness ==
    /\ SweepDone
    /\ maxThreads = 2
    /\ iterations = 2
    /\ Len(times["local"][2]) = 2
    /\ times["local"][2] # times["local"][1]

TrialOrder ==
    <<"generate", "timer_start", "call", "return", "timer_stop", "push">>

\* C15: in every trial the grid is generated, then the timer is started, then
\* the counting function is called, and the timer is stopped only after the
\* function has returned with all its workers joined: the sample is the time
\* of the call alone.  Every trial records one sample, no two trials are the
\* same, and every sample of the tables is the sample of one trial.
C15_TimedRegion ==
    /\ Len(events) <= Len(TrialOrder)
    /\ events = SubSeq(TrialOrder, 1, Len(events))
    /\ timer.live => Len(events) \in 2..5
    /\ Len(events) \in 4..5 => running = 0 /\ spawned = sweepThreads
    /\ Len(events) = 5 => timer.stopped /\ elapsed = 2 * sweepThreads + 2
    /\ Len(events) = 6 => trialLog[Len(trialLog)].sample = DblOf(elapsed)
    /\ \A k, l \in 1..Len(trialLog) :
          /\ trialLog[k].strategy = trialLog[l].strategy
          /\ trialLog[k].slot = trialLog[l].slot
          /\ trialLog[k].iter = trialLog[l].iter
          => k = l
    /\ \A s \in Strategies : \A n \in 1..Len(times[s]) :
          Len(times[s][n]) = Len(TrialsAt(s, n))

C15_Witness ==
    /\ bpc = "push"
    /\ strategy = "local"
    /\ sweepThreads = 2
    /\ events = SubSeq(TrialOrder, 1, 5)
    /\ elapsed = 6
    /\ Len(trialLog) >= 3

\* C18: when the result file cannot be opened the operator is told, the
\* function returns, the file is as it was (no row is written) and the
\* statistics are those computed from the tables; the file is opened only
\* after the sweep has run all its trials and the statistics are computed.
C18_OutputFailure ==
    /\ out = "cannot open file" =>
          /\ bpc = "exit"
          /\ file \in {NoFile, StaleFile}
          /\ stats = ComputedStats(times, maxThreads, iterations)
    /\ out # "cannot open file" /\ bpc = "exit" =>
          /\ out = "written"
          /\ file = [exists |-> TRUE, rows |-> CsvRows(stats, maxThreads)]
    /\ bpc \in {"write", "exit"} \/ file \notin {NoFile, StaleFile} =>
          /\ sweepThreads > maxThreads
          /\ Len(trialLog) = 2 * maxThreads * iterations
          /\ stats = ComputedStats(times, maxThreads, iterations)

C18_Witness ==
    /\ out = "cannot open file"
    /\ file = StaleFile
    /\ maxThreads = 2
    /\ iterations = 2
    /\ stats.localAvg[2].kind = "num"

\* the README's options: the values a list of arguments asks for
RECURSIVE DocumentedOptions(_, _, _)
DocumentedOptions(args, i, acc) ==
    IF i > Len(args) THEN acc
    ELSE IF args[i] \in OptionTokens /\ i + 1 <= Len(args) /\ StoiOk(args[i + 1])
    THEN LET v == stoi(args[i + 1])
         IN  DocumentedOptions(args, i + 2,
                [maxThreads |-> IF args[i] = "--threads" THEN v ELSE acc.maxThreads,
                 rows       |-> IF args[i] \in {"--rows", "--rowscols"} THEN v ELSE acc.rows,
                 cols       |-> IF args[i] \in {"--cols", "--rowscols"} THEN v ELSE acc.cols,
                 iterations |-> IF args[i] = "--iterations" THEN v ELSE acc.iterations])
    ELSE DocumentedOptions(args, i + 1, acc)

DocumentedDefaults ==
    [maxThreads |-> defaultMaxThreads, iterations |-> defaultIterations,
     rows |-> defaultRows, cols |-> defaultCols]

\* C19: in benchmark mode every main calls runBenchmarks with the values the
\* options ask for: --threads n the maximum thread count (default 30), --rows n and
\* --cols n the dimensions (default 1000 x 1000), --rowscols n both
\* dimensions, --iterations n the trials per thread count (default 5).
C19_CliOptions ==
    mpc = "called" =>
        benchCall = DocumentedOptions(argv, 2, DocumentedDefaults)

\* the trials of a sweep in the order of its loops: <<numThreads, iter>>
SweepTrials(n, its) ==
    [k \in 1..(n * its) |-> <<((k - 1) \div its) + 1, (k - 1) % its>>]

\* the trials a strategy has run, in order
TrialsOf(s) ==
    LET done == SelectSeq(trialLog, LAMBDA e : e.strategy = s)
    IN  [k \in 1..Len(done) |-> <<done[k].numThreads, done[k].iter>>]

\* the sweep is over and each strategy has run each trial of the sweep once
SweepComplete ==
    /\ SweepDone
    /\ \A s \in Strategies : TrialsOf(s) = SweepTrials(maxThreads, iterations)

\* C20: under fair scheduling every counting call with numThreads >= 1
\* eventually returns, and a sweep with maxThreads >= 1, iterations >= 1 and a
\* grid of non-negative dimensions eventually finishes having run exactly
\* the maxThreads * iterations trials of each strategy, each once and in the
\* order of the loops; the one thing that ends a call or a sweep before is
\* the termination of the process by a failed thread creation.
C20_RunToCompletion ==
    /\ (pc = "alloc" /\ numThreads >= 1)
          ~> (pc = "returned" \/ err = "system_error")
    /\ (bpc = "alloc" /\ maxThreads >= 1 /\ iterations >= 1 /\ benchRows >= 0)
          ~> (SweepComplete \/ out = "terminate: system_error")

C20_Witness ==
    /\ bpc = "exit"
    /\ SweepComplete
    /\ maxThreads = 2
    /\ iterations = 2
    /\ Len(trialLog) = 8

\* C21: in countWithContainer, between the first spawn and the last join, a
\* step that changes slot k is a step of worker k, a step of a worker changes
\* no slot but its own, and the steps of the main thread (its spawns and
\* joins) change no slot.
C21_SlotExclusivity ==
    [][ fn = "container" /\ pc \in {"spawn", "join"} =>
          /\ Len(results') = Len(results)
          /\ \A k \in 1..Len(results) :
                results'[k] # results[k] =>
                    /\ k <= Len(threads)
                    /\ threads'[k] # threads[k]
          /\ \A w \in 1..Len(threads) :
                threads'[w] # threads[w] =>
                    \A k \in 1..Len(results) : k # w => results'[k] = results[k]
          /\ (t' # t \/ joined' # joined \/ pc' # pc) => results' = results
      ]_allVars

C21_Witness ==
    /\ fn = "container"
    /\ pc = "join"
    /\ \E w1, w2 \in 1..Len(threads) :
          /\ w1 # w2
          /\ results[w1] > 0 /\ threads[w1].state = "run"
          /\ results[w2] = 0 /\ threads[w2].state = "done"
          /\ threads[w2].scanWrites > 0

\* C24 as stated: for rows >= 0 and numThreads >= 1 every worker's range
\* satisfies 0 <= startRow <= endRow <= rows.
C24_RangeWellFormed ==
    numThreads >= 1 =>
        \A w \in 1..Len(threads) :
            /\ 0 <= threads[w].startRow
            /\ threads[w].startRow <= threads[w].endRow
            /\ threads[w].endRow <= numRows

\* C24 amended: worker t's range is [t * chunkSize, min((t + 1) * chunkSize,
\* rows)) with 0 <= startRow and 0 <= endRow <= rows; startRow <= endRow
\* exactly when t * chunkSize <= rows, and otherwise endRow = rows < startRow
\* and the worker scans no row.
C24_RangeShape ==
    numThreads >= 1 =>
        \A w \in 1..Len(threads) :
            LET th == threads[w] IN
            /\ th.startRow = (w - 1) * chunkSize
            /\ th.endRow = Min(w * chunkSize, numRows)
            /\ 0 <= th.startRow
            /\ 0 <= th.endRow /\ th.endRow <= numRows
            /\ (th.startRow <= th.endRow) <=> ((w - 1) * chunkSize <= numRows)
            /\ th.startRow > th.endRow =>
                  /\ th.endRow = numRows
                  /\ RowsOf(th) = {}
                  /\ th.i = th.startRow /\ th.localCount = 0

C24_Witness ==
    /\ AllSpawned
    /\ \E w \in 1..numThreads : threads[w].startRow > threads[w].endRow
    /\ \E w \in 1..numThreads : threads[w].startRow < threads[w].endRow
    /\ \E w \in 1..numThreads : threads[w].state = "done"

\* C25: in countWithLocalCounter globalCount is 0 when the call starts, is at
\* every moment the sum of the final local counts of the workers that have
\* done their fetch_add, never exceeds the sequential count of the grid and
\* never decreases.
C25_Accumulator ==
    /\ [](fn = "local" =>
            /\ pc \in {"alloc", "chunk"} => globalCount = 0
            /\ globalCount =
                  SumSeq([w \in 1..Len(threads) |->
                             IF threads[w].publishes > 0
                                THEN CountInRange(matrix, threshold,
                                                  threads[w].startRow,
                                                  threads[w].endRow)
                                ELSE 0])
            /\ globalCount <= SeqCount(matrix, threshold))
    /\ [][fn = "local" /\ fn' = "local" => globalCount' >= globalCount]_allVars

C25_Witness ==
    /\ fn = "local"
    /\ pc = "join"
    /\ globalCount > 0
    /\ globalCount < SeqCount(matrix, threshold)
    /\ \E w \in 1..Len(threads) : threads[w].state = "run"

\* a trial's grid exists: it has been generated and its block has not ended
InTrial == Len(events) \in 1..5

\* C22: in every trial of the sweep, for both strategies, the grid the
\* counting function is called on has the rows and cols runBenchmarks was
\* given.
C22_ConfiguredDimensions ==
    bpc # "off" /\ InTrial => image = <<benchRows, benchCols>>

\* the names of the four rows after the header
RowNames == <<"ContainerAvg", "ContainerStd", "LocalCounterAvg", "LocalCounterStd">>

\* C23: an opened file is empty before the rows are written; after a
\* successful write it holds exactly five lines: the header ThreadCount, 1,
\* ..., maxThreads, then ContainerAvg, ContainerStd, LocalCounterAvg and
\* LocalCounterStd, each its name followed by the maxThreads values of its
\* vector in the order of the thread counts; nothing of an earlier file is left.
C23_TableFormat ==
    /\ bpc = "write" => file = [exists |-> TRUE, rows |-> <<>>]
    /\ out = "written" =>
          /\ file.exists
          /\ Len(file.rows) = 5
          /\ \A r \in 1..5 : Len(file.rows[r]) = maxThreads + 1
          /\ file.rows[1][1] = "ThreadCount"
          /\ \A n \in 1..maxThreads : file.rows[1][n + 1] = n
          /\ \A r \in 1..4 : file.rows[r + 1][1] = RowNames[r]
          /\ \A n \in 1..maxThreads :
                /\ file.rows[2][n + 1] = stats.containerAvg[n]
                /\ file.rows[3][n + 1] = stats.containerStd[n]
                /\ file.rows[4][n + 1] = stats.localAvg[n]
                /\ file.rows[5][n + 1] = stats.localStd[n]

C23_Witness ==
    /\ out = "written"
    /\ maxThreads = 2
    /\ iterations = 2
    /\ Len(file.rows) = 5
    /\ file.rows[4][3].kind = "num"
    /\ Len(trialLog) = 8

\* C26: a Timer reports its measurement exactly once over its lifetime: the
\* first stop() returns the time elapsed since construction, marks the timer
\* stopped and records that duration; every later stop() returns 0 and
\* leaves the timer as it is; the destructor prints the elapsed time if and
\* only if stop() was never called.
C26_ReportsOnce ==
    /\ [](tmpc # "off" =>
            /\ tmr.stopped <=> Len(tmReturns) >= 1
            /\ Len(tmReturns) >= 1 => tmReturns[1] = tmr.duration
            /\ \A k \in 2..Len(tmReturns) : tmReturns[k] = 0
            /\ Len(tmPrinted) <= 1
            /\ tmpc = "live" => tmPrinted = <<>>
            /\ tmpc = "destroyed" => (Len(tmPrinted) = 1 <=> tmReturns = <<>>))
    /\ [][ /\ tmReturns' # tmReturns =>
                /\ Len(tmReturns') = Len(tmReturns) + 1
                /\ tmReturns = <<>> =>
                      /\ tmReturns'[1] = tmNow - tmr.start
                      /\ tmr'.stopped
                      /\ tmr'.duration = tmNow - tmr.start
                /\ tmReturns # <<>> =>
                      /\ tmReturns'[Len(tmReturns')] = 0
                      /\ tmr' = tmr
           /\ tmPrinted' # tmPrinted => tmPrinted' = <<tmNow - tmr.start>>
         ]_allVars

C26_Witness ==
    /\ tmpc = "destroyed"
    /\ Len(tmReturns) >= 2
    /\ tmReturns[1] > 0
    /\ tmr.duration = tmReturns[1]
    /\ tmPrinted = <<>>

\* the parameter values of a sweep: paramStart, paramStart + paramStep, ...
\* up to paramEnd
RECURSIVE ParamsFrom(_, _, _)
ParamsFrom(p, last, step) ==
    IF p > last THEN <<>> ELSE <<p>> \o ParamsFrom(p + step, last, step)

\* the calls of func with parameter value p
CallsWith(p) == SelectSeq(funcLog, LAMBDA c : c.param = p)

\* C27: for paramStep >= 1, runBenchmarkWithPreCalc calls preCalc once per
\* parameter value paramStart, paramStart + paramStep, ... <= paramEnd, calls
\* the benchmark function `iterations` times per parameter value, each time
\* with data equal to what preCalc returned, and returns one average per
\* parameter value, in parameter order.
C27_PreCalcSweep ==
    /\ [](prepc # "off" =>
            LET params == ParamsFrom(paramStart, paramEnd, paramStep)
                inParam == prepc \in {"inner", "call", "avg"}
            IN  /\ Len(preCalcLog) <= Len(params)
                /\ \A k \in 1..Len(preCalcLog) :
                      /\ preCalcLog[k].param = params[k]
                      /\ LET calls == CallsWith(params[k])
                         IN  /\ Len(calls) <= preIterations
                             /\ \A j \in 1..Len(calls) :
                                   /\ calls[j].iter = j - 1
                                   /\ calls[j].data = preCalcLog[k].data
                             /\ (k < Len(preCalcLog) \/ ~inParam) =>
                                   Len(calls) = preIterations
                /\ \A j \in 1..Len(funcLog) :
                      \E k \in 1..Len(preCalcLog) :
                          funcLog[j].param = preCalcLog[k].param
                /\ inParam => preCalcData = preCalcLog[Len(preCalcLog)].data
                /\ Len(averages) = Len(preCalcLog) - (IF inParam THEN 1 ELSE 0)
                /\ prepc = "returned" =>
                      /\ Len(preCalcLog) = Len(params)
                      /\ Len(averages) = Len(params))
    /\ [][ averages' # averages =>
              /\ Len(iterationTimes) = preIterations
              /\ averages' = Append(averages, calculateAverage(iterationTimes))
              /\ param = preCalcLog[Len(preCalcLog)].param
         ]_allVars

C27_Witness ==
    /\ prepc = "returned"
    /\ Len(averages) = 2
    /\ preIterations = 2
    /\ Len(funcLog) = 4
    /\ \E j \in 1..Len(funcLog) :
          /\ Len(funcLog[j].data) >= 1
          /\ benchFunc(funcLog[j].data) # funcLog[j].data
          /\ funcLog[j].iter = 1

\* the indices (from 0) at which a vector holds a key
IndicesOf(data, key) == { i \in 0..(Len(data) - 1) : data[i + 1] = key }

\* C29: on every vector of distinct values in strictly increasing order, the
\* empty one included, and every key, binarySearch terminates (each pass
\* shrinks the interval left..right, which stays inside the vector) and
\* returns what linearSearch returns: the index i with data[i] == key if the
\* key is present and -1 otherwise.
C29_BinaryAgreesWithLinear ==
    bspc # "off" =>
        /\ bspc = "loop" =>
              /\ 0 <= bsLeft /\ bsRight <= Len(bsData) - 1
              /\ bsLeft <= bsRight + 1
              /\ bsSteps + (bsRight - bsLeft + 1) <= Len(bsData)
        /\ bsSteps <= Len(bsData)
        /\ bspc = "returned" =>
              /\ bsResult = linearSearch(bsData, bsKey)
              /\ IndicesOf(bsData, bsKey) # {} => IndicesOf(bsData, bsKey) = {bsResult}
              /\ IndicesOf(bsData, bsKey) = {} => bsResult = -1

C29_Witness ==
    /\ bspc = "returned"
    /\ Len(bsData) = MaxSearchLen
    /\ bsSteps >= 3
    /\ bsResult = Len(bsData) - 1
    /\ bsData[bsResult + 1] = bsKey

\* C30: the handling of `--maxSize n` terminates for every n >= 1 and
\* replaces the size list by the finite increasing list step, 2*step, ...,
\* up to n with step = n / 10, every listed size at least 1 and at most n.
C30_MaxSizeList ==
    maxSize >= 1 /\ sizepc \in {"loop", "done", "terminated"} =>
        /\ sizepc # "terminated"
        /\ Len(sizes) <= maxSize
        /\ \A k \in 1..Len(sizes) :
              /\ sizes[k] = k * (maxSize \div 10)
              /\ 1 <= sizes[k] /\ sizes[k] <= maxSize
              /\ k > 1 => sizes[k - 1] < sizes[k]
        /\ sizepc = "done" =>
              (Len(sizes) + 1) * (maxSize \div 10) > maxSize

\* C28: for each size s of the list, the linear-search and binary-search
\* timings recorded for s are taken on a sorted vector of exactly s elements,
\* searching for a key that is present in that vector; the run for s records
\* its timings and does not end the program.
C28_SearchDataSize ==
    searchSize >= 1 =>
    /\ searchpc # "terminated"
    /\ \A k \in 1..Len(searchLog) :
          /\ searchLog[k].elements = searchLog[k].size
          /\ searchLog[k].result >= 0
    /\ searchpc = "done" =>
          /\ Len(searchLog) = 2 * searchIters
          /\ \A k \in 1..Len(searchLog) :
                searchLog[k].fn = (IF k <= searchIters THEN "linear" ELSE "binary")

====
